---- MODULE Spec2Model ----
(***************************************************************************)
(* Model of the resilient delivery client of text2slack-mcp:              *)
(* src/src/services/slack-client.ts (SlackClient) and                     *)
(* src/src/utils/validation.ts (validateWebhookUrl, validateMessage).     *)
(*                                                                         *)
(* One SlackClient is constructed (Init); sendMessage invocations run on  *)
(* it as independent asynchronous computations.  Every action is one      *)
(* run-to-completion step of the JavaScript event loop: the synchronous   *)
(* prefix of sendMessage up to the first await, the continuation after    *)
(* the fetch promise settles, the timeout callback, and the continuation  *)
(* after the backoff sleep.                                                *)
(***************************************************************************)
EXTENDS Integers, Sequences, FiniteSets, TLC

\* ---------------------------------------------------------------- bounds
\* number of sendMessage invocations that exist in the model
NumCalls == 2
\* direct calls of setupSignalHandlers besides the one startServer makes
MaxSetupCalls == 2
\* largest in-range maxRetries a caller passes (besides the out-of-range ones)
MaxRetriesIn == 2
\* number of values Math.random() is drawn from: k / JitterSteps, k < JitterSteps
JitterSteps == 2

\* ------------------------------------------------------ program constants
DEFAULT_TIMEOUT_MS == 30000
DEFAULT_MAX_MESSAGE_LENGTH == 4000
\* upper clamp of maxRetries in normalizeRetryConfig
MAX_RETRIES_LIMIT == 10

Calls == 1..NumCalls

Min(a, b) == IF a < b THEN a ELSE b
Max(a, b) == IF a > b THEN a ELSE b

RECURSIVE Pow2(_)
Pow2(n) == IF n = 0 THEN 1 ELSE 2 * Pow2(n - 1)

\* ------------------------------------------------------------ JS values
\* A message argument as JavaScript sees it.  A string is represented by its
\* length; `num` is the value of a number argument.
StringValue(n) == [type |-> "string", length |-> n, num |-> 0]
NumberValue(n) == [type |-> "number", length |-> 0, num |-> n]
UndefinedValue == [type |-> "undefined", length |-> 0, num |-> 0]
ObjectValue == [type |-> "object", length |-> 0, num |-> 0]

\* JavaScript truthiness of a value (the `!message` test)
Truthy(v) ==
  CASE v.type = "string" -> v.length > 0
    [] v.type = "number" -> v.num # 0
    [] v.type = "undefined" -> FALSE
    [] OTHER -> TRUE

\* Texts handed to sendMessage
Texts ==
  { StringValue(n) : n \in {0, 1, 2, DEFAULT_MAX_MESSAGE_LENGTH,
                            DEFAULT_MAX_MESSAGE_LENGTH + 1} }
    \cup { NumberValue(123), NumberValue(0), UndefinedValue, ObjectValue }

\* Strings of error messages are sequences of tokens; String.includes is
\* containment of a contiguous token sequence.
Includes(msg, pat) ==
  \E i \in 1..(Len(msg) - Len(pat) + 1) :
     SubSeq(msg, i, i + Len(pat) - 1) = pat

DigitChar == <<"0", "1", "2", "3", "4", "5", "6", "7", "8", "9">>

RECURSIVE ToDigits(_)
\* template-literal conversion of a non-negative integer to its decimal digits
ToDigits(n) ==
  IF n < 10 THEN <<DigitChar[n + 1]>>
  ELSE ToDigits(n \div 10) \o <<DigitChar[(n % 10) + 1]>>

\* A thrown value: an Error object (name, message) or a non-Error value
MkError(name, msg) == [kind |-> "Error", name |-> name, message |-> msg]
ThrownString(s) == [kind |-> "string", name |-> "", message |-> s]
ThrownObject == [kind |-> "object", name |-> "", message |-> <<>>]
NoValue == [kind |-> "none", name |-> "", message |-> <<>>]

IsError(v) == v.kind = "Error"

\* String(value) for a thrown non-Error value
StringOf(v) ==
  CASE v.kind = "string" -> v.message
    [] v.kind = "object" -> <<"[object Object]">>
    [] OTHER -> <<v.name, ": ">> \o v.message

\* ------------------------------------------------ validation.ts
MessageValidationError(msg) == MkError("MessageValidationError", msg)

\* mutant: a text of exactly the maximum length is rejected
validateMessage_AtLimit(message, maxLength) ==
  IF ~Truthy(message) \/ message.type # "string"
  THEN MessageValidationError(<<"Message must be a non-empty string">>)
  ELSE IF message.length >= maxLength
  THEN MessageValidationError(
         <<"Message exceeds maximum length of ">> \o ToDigits(maxLength)
           \o <<" characters (got ">> \o ToDigits(message.length) \o <<")">>)
  ELSE NoValue

\* validateMessage(message, maxLength): the error it throws, NoValue if none
validateMessage(message, maxLength) ==
  IF ~Truthy(message) \/ message.type # "string"
  THEN MessageValidationError(<<"Message must be a non-empty string">>)
  ELSE IF message.length > maxLength
  THEN MessageValidationError(
         <<"Message exceeds maximum length of ">> \o ToDigits(maxLength)
           \o <<" characters (got ">> \o ToDigits(message.length) \o <<")">>)
  ELSE NoValue

ConfigError(msg) == MkError("ConfigError", msg)

\* A URL string as it is written: the text before "://" (empty when the string
\* has no scheme), the host text, and the rest (port, path).
Url(scheme, host, rest) == [scheme |-> scheme, host |-> host, rest |-> rest]
EmptyUrl == Url("", "", "")

\* `!url` is true of the empty string only
UrlTruthy(url) == url # EmptyUrl

\* ASCII lower-casing done by the URL parser
Lower(s) ==
  CASE s = "HTTP" -> "http"
    [] s = "HTTPS" -> "https"
    [] s = "LOCALHOST" -> "localhost"
    [] OTHER -> s

\* schemes whose URLs must have a host
HostSchemes == {"http", "https", "ftp"}

\* the host parser: lower-cases a domain, expands a short IPv4 form, and fails
\* on an IPv6 address that is not bracketed
HostParses(h) == h # "::1"
CanonHost(h) ==
  CASE h = "127.1" -> "127.0.0.1"
    [] OTHER -> Lower(h)

\* new URL(url): parsed protocol and hostname, ok = FALSE when it throws
ParseURL(url) ==
  LET scheme == Lower(url.scheme) IN
  IF url.scheme = "" \/ (scheme \in HostSchemes /\ url.host = "")
     \/ ~HostParses(url.host)
  THEN [ok |-> FALSE, protocol |-> <<>>, hostname |-> ""]
  ELSE [ok |-> TRUE, protocol |-> <<scheme, ":">>, hostname |-> CanonHost(url.host)]

\* mutant: every address that starts with 127. counts as loopback
isLocalhostAddress_Any127(hostname) ==
  hostname \in {"localhost", "127.0.0.1", "127.0.0.2", "::1", "[::1]"}

\* isLocalhostAddress(hostname)
isLocalhostAddress(hostname) ==
  \/ hostname = "localhost"
  \/ hostname = "127.0.0.1"
  \/ hostname = "::1"
  \/ hostname = "[::1]"

\* validateWebhookUrl(url): the error it throws, NoValue if none
validateWebhookUrl(url) ==
  IF ~UrlTruthy(url) THEN ConfigError(<<"Webhook URL is required">>)
  ELSE LET parsedUrl == ParseURL(url) IN
    IF ~parsedUrl.ok
    THEN ConfigError(<<"Webhook URL is not a valid URL. ",
                       "Expected format: https://hooks.example.com/...">>)
    ELSE IF parsedUrl.protocol # <<"https", ":">>
    THEN IF parsedUrl.protocol = <<"http", ":">>
            /\ isLocalhostAddress(parsedUrl.hostname)
         THEN NoValue
         ELSE ConfigError(<<"Webhook URL must use HTTPS", " for security. ",
                            "HTTP is not allowed.">>)
    ELSE NoValue

\* ------------------------------------------------ slack-client.ts
\* options.retry: false, undefined, or a RetryConfig
RetryFalse == [kind |-> "false", maxRetries |-> 0, baseDelayMs |-> 0, maxDelayMs |-> 0]
RetryUndefined == [kind |-> "undefined", maxRetries |-> 0, baseDelayMs |-> 0, maxDelayMs |-> 0]
RetryConfig(m, b, x) == [kind |-> "config", maxRetries |-> m, baseDelayMs |-> b, maxDelayMs |-> x]

DEFAULT_RETRY_CONFIG == RetryConfig(3, 1000, 10000)

\* mutant: maxRetries is only clamped from above
normalizeRetryConfig_NoLowerClamp(retry) ==
  IF retry.kind = "false" THEN RetryFalse
  ELSE LET config == IF retry.kind = "undefined" THEN DEFAULT_RETRY_CONFIG ELSE retry
           maxRetries == Min(MAX_RETRIES_LIMIT, config.maxRetries)
           baseDelayMs == Max(0, config.baseDelayMs)
           maxDelayMs == Max(baseDelayMs, config.maxDelayMs)
       IN RetryConfig(maxRetries, baseDelayMs, maxDelayMs)

\* mutant: maxRetries is only clamped from below
normalizeRetryConfig_NoUpperClamp(retry) ==
  IF retry.kind = "false" THEN RetryFalse
  ELSE LET config == IF retry.kind = "undefined" THEN DEFAULT_RETRY_CONFIG ELSE retry
           maxRetries == Max(0, config.maxRetries)
           baseDelayMs == Max(0, config.baseDelayMs)
           maxDelayMs == Max(baseDelayMs, config.maxDelayMs)
       IN RetryConfig(maxRetries, baseDelayMs, maxDelayMs)

\* mutant: a falsy options.retry (false as well as undefined) takes the default
normalizeRetryConfig_FalsyAsDefault(retry) ==
  LET config == IF retry.kind \in {"false", "undefined"}
                THEN DEFAULT_RETRY_CONFIG ELSE retry
      maxRetries == Max(0, Min(MAX_RETRIES_LIMIT, config.maxRetries))
      baseDelayMs == Max(0, config.baseDelayMs)
      maxDelayMs == Max(baseDelayMs, config.maxDelayMs)
  IN RetryConfig(maxRetries, baseDelayMs, maxDelayMs)

\* normalizeRetryConfig(retry)
normalizeRetryConfig(retry) ==
  IF retry.kind = "false" THEN RetryFalse
  ELSE LET config == IF retry.kind = "undefined" THEN DEFAULT_RETRY_CONFIG ELSE retry
           maxRetries == Max(0, Min(MAX_RETRIES_LIMIT, config.maxRetries))
           baseDelayMs == Max(0, config.baseDelayMs)
           maxDelayMs == Max(baseDelayMs, config.maxDelayMs)
       IN RetryConfig(maxRetries, baseDelayMs, maxDelayMs)

\* mutant: every status failure is retryable ('Status: ' instead of 'Status: 5')
isRetryableError_AnyStatus(error) ==
  IF ~IsError(error) THEN FALSE
  ELSE IF error.name = "TypeError" /\ Includes(error.message, <<"fetch">>) THEN TRUE
  ELSE IF Includes(error.message, <<"Status: ">>) THEN TRUE
  ELSE IF Includes(error.message, <<"timed out">>) THEN TRUE
  ELSE FALSE

\* mutant: the network-failure rule is missing
isRetryableError_NoNetwork(error) ==
  IF ~IsError(error) THEN FALSE
  ELSE IF Includes(error.message, <<"Status: ", "5">>) THEN TRUE
  ELSE IF Includes(error.message, <<"timed out">>) THEN TRUE
  ELSE FALSE

\* mutant: the instanceof test is missing, the text of any thrown value is matched
isRetryableError_NoInstanceCheck(error) ==
  IF error.name = "TypeError" /\ Includes(error.message, <<"fetch">>) THEN TRUE
  ELSE IF Includes(error.message, <<"Status: ", "5">>) THEN TRUE
  ELSE IF Includes(error.message, <<"timed out">>) THEN TRUE
  ELSE FALSE

\* isRetryableError(error)
isRetryableError(error) ==
  IF ~IsError(error) THEN FALSE
  ELSE IF error.name = "TypeError" /\ Includes(error.message, <<"fetch">>) THEN TRUE
  ELSE IF Includes(error.message, <<"Status: ", "5">>) THEN TRUE
  ELSE IF Includes(error.message, <<"timed out">>) THEN TRUE
  ELSE FALSE

\* mutant: the exponential delay is not capped
calculateBackoffDelay_NoCap(attempt, config, k) ==
  LET delay == config.baseDelayMs * Pow2(attempt)
  IN (delay * (JitterSteps + k)) \div (2 * JitterSteps)

\* calculateBackoffDelay(attempt, config) when Math.random() returns k / JitterSteps
calculateBackoffDelay(attempt, config, k) ==
  LET delay == config.baseDelayMs * Pow2(attempt)
      cappedDelay == Min(delay, config.maxDelayMs)
  IN (cappedDelay * (JitterSteps + k)) \div (2 * JitterSteps)

\* What the transport (global fetch) does with one request: it resolves with a
\* response carrying a status, or it rejects with a thrown value.
Response(status) == [kind |-> "response", status |-> status, value |-> NoValue]
Rejection(v) == [kind |-> "rejection", status |-> 0, value |-> v]
NoOutcome == [kind |-> "none", status |-> 0, value |-> NoValue]

Statuses == {200, 204, 304, 400, 404, 429, 500, 503}

NetworkError == MkError("TypeError", <<"fetch", " failed">>)
GenericError == MkError("Error", <<"Network failure">>)
AbortError == MkError("AbortError", <<"The operation was aborted">>)

\* values the transport rejects with on its own (an abort comes from the timer)
TransportThrown ==
  { NetworkError, GenericError,
    ThrownString(<<"string error">>), ThrownString(<<"timed out">>), ThrownObject }

\* mutant: every status below 400 counts as accepted
ResponseOk_Below400(status) == status >= 200 /\ status < 400

\* response.ok
ResponseOk(status) == status >= 200 /\ status =< 299

StatusMessage(status) ==
  <<"Failed to send message to Slack. ", "Status: ">> \o ToDigits(status)

TimeoutMessage(ms) ==
  <<"Request to Slack ", "timed out", " after ">> \o ToDigits(ms) \o <<"ms">>

\* mutant: a rejection with a non-Error value is dropped and the result returned
doSendMessage_SwallowsNonError(outcome, ms) ==
  IF outcome.kind = "response"
  THEN IF ~ResponseOk(outcome.status)
       THEN MkError("Error", StatusMessage(outcome.status))
       ELSE NoValue
  ELSE IF ~IsError(outcome.value)
       THEN NoValue
       ELSE IF outcome.value.name = "AbortError"
            THEN MkError("Error", TimeoutMessage(ms))
            ELSE outcome.value

\* mutant: only status 200 counts as accepted
doSendMessage_Only200(outcome, ms) ==
  IF outcome.kind = "response"
  THEN IF outcome.status # 200
       THEN MkError("Error", StatusMessage(outcome.status))
       ELSE NoValue
  ELSE IF IsError(outcome.value) /\ outcome.value.name = "AbortError"
       THEN MkError("Error", TimeoutMessage(ms))
       ELSE outcome.value

\* mutant: an AbortError is rethrown as it is
doSendMessage_AbortRethrown(outcome, ms) ==
  IF outcome.kind = "response"
  THEN IF ~ResponseOk(outcome.status)
       THEN MkError("Error", StatusMessage(outcome.status))
       ELSE NoValue
  ELSE outcome.value

\* doSendMessage: the value it throws for a transport outcome, NoValue when it
\* returns the result
doSendMessage(outcome, ms) ==
  IF outcome.kind = "response"
  THEN IF ~ResponseOk(outcome.status)
       THEN MkError("Error", StatusMessage(outcome.status))
       ELSE NoValue
  ELSE IF IsError(outcome.value) /\ outcome.value.name = "AbortError"
       THEN MkError("Error", TimeoutMessage(ms))
       ELSE outcome.value

\* the result object doSendMessage returns
SendMessageResult(message) == [success |-> TRUE, message |-> message]
NoResult == [success |-> FALSE, message |-> UndefinedValue]

\* wrappedError in the catch block of sendMessage
WrappedError(error) ==
  IF IsError(error) THEN error ELSE MkError("Error", StringOf(error))

\* mutant: one attempt too many
MaxAttempts_OffByOne(retryConfig) ==
  IF retryConfig.kind = "false" THEN 1 ELSE retryConfig.maxRetries + 2

\* maxAttempts of sendMessage
MaxAttempts(retryConfig) ==
  IF retryConfig.kind = "false" THEN 1 ELSE retryConfig.maxRetries + 1

\* mutant: only the falsy test, the typeof test is missing
InvalidMessage_OnlyFalsy(message) == ~Truthy(message)

\* the test at the head of sendMessage
InvalidMessage(message) == ~Truthy(message) \/ message.type # "string"

\* mutant: no failure is propagated before the last attempt
Propagates_Never(config, error) == FALSE

\* mutant: every failure is propagated at once
Propagates_Always(config, error) == TRUE

\* "Don't retry if retries are disabled or error is not retryable"
Propagates(config, error) == config.kind = "false" \/ ~isRetryableError(error)

\* mutant: the last attempt is recognized one iteration late
LastAttempt_Late(att, maxAttempts) == att = maxAttempts

\* "Throw on last attempt (no more retries)"
LastAttempt(att, maxAttempts) == att = maxAttempts - 1

\* ------------------------------------------------ logger.ts
LOG_LEVEL_PRIORITY(level) ==
  CASE level = "debug" -> 0
    [] level = "info" -> 1
    [] level = "warn" -> 2
    [] OTHER -> 3

\* new Logger(): enabled and minLevel as the process environment sets them
Logger(enabled, minLevel) == [enabled |-> enabled, minLevel |-> minLevel]

\* Logger.log reaches console.error for an entry of this level
LogReaches(lg, level) ==
  LET isError == level = "error" IN
  IF ~lg.enabled /\ ~isError THEN FALSE
  ELSE IF ~isError /\ LOG_LEVEL_PRIORITY(level) < LOG_LEVEL_PRIORITY(lg.minLevel)
  THEN FALSE
  ELSE TRUE

\* what a console.error that fails throws (a replaced console, or a console
\* that does not ignore the errors of its stream)
ConsoleError == MkError("Error", <<"write EPIPE">>)

\* ------------------------------------------------------------- state
VARIABLES
  options,       \* the options argument the constructor was called with
  webhookUrl,    \* this.webhookUrl
  retryConfig,   \* this.retryConfig: the value of the object the field refers to
  configRef,     \* which object this.retryConfig refers to: own, default, caller
  timeoutMs,     \* this.timeoutMs
  logger,        \* this.logger
  defaultRetryConfig, \* the module-level object DEFAULT_RETRY_CONFIG
  callerConfig,  \* the object the caller passed as options.retry
  env,           \* what the surroundings do: texts passed, transport outcomes,
                 \* whether console.error can throw
  pc,            \* per invocation: absent, idle, fetching, sleeping, success, failed
  message,       \* per invocation: the argument of sendMessage
  attempt,       \* per invocation: the loop variable of sendMessage
  aborted,       \* per invocation: controller.signal.aborted of the attempt in flight
  timerArmed,    \* per invocation: the timeout timer of doSendMessage is pending
  delay,         \* per invocation: the delay of the last backoff sleep, -1 if none
  returned,      \* per invocation: the value sendMessage resolved with
  thrown,        \* per invocation: the value sendMessage rejected with
  request,       \* per invocation: the arguments of the last fetch call
  requests,      \* history: number of fetch calls of the invocation
  sleeps,        \* history: number of sleep calls of the invocation
  fails,         \* history: number of times the catch block of the invocation ran
  lastOutcome,   \* history: what the transport did with the last attempt
  input,         \* arguments of a function applied on its own
  output,        \* its result
  tool,          \* per invocation: position of the send_to_slack handler
  toolResponse,  \* per invocation: what the handler returned
  sendCalls,     \* history: number of sendMessage calls of the handler
  signalHandlersRegistered, \* the module-level flag of mcp-server.ts
  listeners,     \* number of listeners registered with process.on, per signal
  onShutdown,    \* the first setupSignalHandlers call was given a callback
  isShuttingDown, \* the flag in the closure of handleSignal
  startPc,       \* position of startServer
  connectError,  \* the error startServer caught
  startError,    \* the value startServer rejected with
  sigPc,         \* position of the handleSignal run that shuts down
  exitCode,      \* the code process.exit was called with, -1 while running
  setupCalls,    \* history: number of direct setupSignalHandlers calls
  events         \* history: what the server functions did, in order

clientVars == <<options, webhookUrl, retryConfig, configRef, timeoutMs, logger,
                defaultRetryConfig, callerConfig, env>>

callVars == <<pc, message, attempt, aborted, timerArmed, delay, returned, thrown,
              request, requests, sleeps, fails, lastOutcome>>

fnVars == <<input, output>>

toolVars == <<tool, toolResponse, sendCalls>>

serverVars == <<signalHandlersRegistered, listeners, onShutdown, isShuttingDown,
                startPc, connectError, startError, sigPc, exitCode, setupCalls,
                events>>

vars == <<clientVars, callVars, fnVars, toolVars, serverVars>>

\* ---------------------------------------------------- construction
MaxRetriesInputs == (-1..MaxRetriesIn) \cup {MAX_RETRIES_LIMIT + 1}
BaseDelayInputs == {-1, 0, 1, 3}
MaxDelayInputs == {0, 2, 8}
TimeoutInputs == {0, 10}

\* options.retry a caller may pass
RetryOptions ==
  {RetryFalse, RetryUndefined}
    \cup { RetryConfig(m, b, x) :
             m \in MaxRetriesInputs, b \in BaseDelayInputs, x \in MaxDelayInputs }

SlackUrl == Url("https", "hooks.slack.com", "/services/T000/B000/XXXX")
InsecureUrl == Url("http", "example.com", "/hook")

\* webhook URLs a client is constructed with
WebhookUrls == {SlackUrl, InsecureUrl}

\* the surroundings of the client
Env(texts, statuses, rejections, consoleThrows) ==
  [texts |-> texts, statuses |-> statuses, thrown |-> rejections,
   consoleThrows |-> consoleThrows]

WideEnv == Env(Texts, Statuses, TransportThrown, FALSE)

\* mutant: the client keeps the object it was given (or the shared default)
RetryConfigOwner_Shared(retry) ==
  CASE retry.kind = "undefined" -> "default"
    [] retry.kind = "config" -> "caller"
    [] OTHER -> "own"

\* normalizeRetryConfig returns a fresh object literal built from a spread copy
RetryConfigOwner(retry) == "own"

\* JSON.stringify({ text: message }): the serialized object with its one member
JsonStringify(text) == [json |-> "object", member |-> "text", value |-> text]
NoBody == [json |-> "none", member |-> "", value |-> UndefinedValue]

NoRequest ==
  [url |-> EmptyUrl, method |-> "", contentType |-> "", body |-> NoBody]

\* the SlackClient constructor (it throws on an empty webhookUrl);
\* timeoutOpt = 0 stands for options.timeoutMs undefined
Constructor(url, retryOpt, timeoutOpt) ==
  /\ UrlTruthy(url)
  /\ options = [retry |-> retryOpt, timeoutMs |-> timeoutOpt]
  /\ webhookUrl = url
  /\ timeoutMs = IF timeoutOpt = 0 THEN DEFAULT_TIMEOUT_MS ELSE timeoutOpt
  /\ retryConfig = normalizeRetryConfig(retryOpt)
  /\ configRef = RetryConfigOwner(retryOpt)
  /\ defaultRetryConfig = DEFAULT_RETRY_CONFIG
  /\ callerConfig = retryOpt

InitCalls(active) ==
  /\ pc = [c \in Calls |-> IF c \in active THEN "idle" ELSE "absent"]
  /\ message = [c \in Calls |-> UndefinedValue]
  /\ attempt = [c \in Calls |-> 0]
  /\ aborted = [c \in Calls |-> FALSE]
  /\ timerArmed = [c \in Calls |-> FALSE]
  /\ delay = [c \in Calls |-> -1]
  /\ returned = [c \in Calls |-> NoResult]
  /\ thrown = [c \in Calls |-> NoValue]
  /\ request = [c \in Calls |-> NoRequest]
  /\ requests = [c \in Calls |-> 0]
  /\ sleeps = [c \in Calls |-> 0]
  /\ fails = [c \in Calls |-> 0]
  /\ lastOutcome = [c \in Calls |-> NoOutcome]

\* the arguments of one application of a function on its own, and its result:
\* the error it threw (NoValue if none) and the number it returned
FnInput(fn, url, text, maxLength, att, config, k) ==
  [fn |-> fn, url |-> url, text |-> text, maxLength |-> maxLength,
   attempt |-> att, config |-> config, k |-> k]
FnOutput(done, error, value) == [done |-> done, error |-> error, value |-> value]

NoInput == FnInput("none", EmptyUrl, UndefinedValue, 0, 0, DEFAULT_RETRY_CONFIG, 0)
NoOutput == FnOutput(FALSE, NoValue, 0)

\* what the send_to_slack handler returns: the content text (its fixed prefix,
\* the text echoed, the reason given) and the isError flag; threw marks a
\* handler that rejected instead
ToolResult(threw, isError, prefix, echo, reason) ==
  [threw |-> threw, isError |-> isError, prefix |-> prefix, echo |-> echo,
   reason |-> reason]
NoToolResult == ToolResult(FALSE, FALSE, "", UndefinedValue, <<>>)

\* tool invocations the MCP server has received and not yet handled
InitTool(active) ==
  /\ tool = [c \in Calls |-> IF c \in active THEN "ready" ELSE "none"]
  /\ toolResponse = [c \in Calls |-> NoToolResult]
  /\ sendCalls = [c \in Calls |-> 0]

\* the module mcp-server.ts after it was loaded; start is "idle" when
\* startServer is still to be called, "absent" when the server is not modelled
InitServer(start) ==
  /\ signalHandlersRegistered = FALSE
  /\ listeners = [SIGINT |-> 0, SIGTERM |-> 0]
  /\ onShutdown = FALSE
  /\ isShuttingDown = FALSE
  /\ startPc = start
  /\ connectError = NoValue
  /\ startError = NoValue
  /\ sigPc = "none"
  /\ exitCode = -1
  /\ setupCalls = 0
  /\ events = <<>>

\* a client constructed with any options, and one sendMessage invocation to come
Init ==
  /\ \E url \in WebhookUrls, retryOpt \in RetryOptions, timeoutOpt \in TimeoutInputs :
        Constructor(url, retryOpt, timeoutOpt)
  /\ logger = Logger(FALSE, "info")
  /\ env = WideEnv
  /\ InitCalls({1})
  /\ input = NoInput /\ output = NoOutput
  /\ InitTool({}) /\ InitServer("absent")

\* ------------------------------------------------------------ actions
\* the outcomes of one call of the logger: FALSE it returns, TRUE it throws
LogRaises(level) ==
  IF env.consoleThrows /\ LogReaches(logger, level) THEN {FALSE, TRUE} ELSE {FALSE}

\* mutant: the attempt index is a field of the client, shared by all invocations
EnterLoop_SharedAttempt(c, att, text) ==
  /\ attempt' = [d \in Calls |-> att]
  /\ IF att < MaxAttempts(retryConfig)
     THEN /\ pc' = [pc EXCEPT ![c] = "fetching"]
          /\ requests' = [requests EXCEPT ![c] = @ + 1]
          /\ request' = [request EXCEPT ![c] =
                [url |-> webhookUrl, method |-> "POST",
                 contentType |-> "application/json", body |-> JsonStringify(text)]]
          /\ timerArmed' = [timerArmed EXCEPT ![c] = TRUE]
          /\ aborted' = [aborted EXCEPT ![c] = FALSE]
          /\ thrown' = thrown
     ELSE /\ pc' = [pc EXCEPT ![c] = "failed"]
          /\ thrown' = [thrown EXCEPT ![c] =
                MkError("Error", <<"Unexpected: retry loop completed without result">>)]
          /\ UNCHANGED <<request, requests, timerArmed, aborted>>

\* mutant: doSendMessage arms no timeout for the request
EnterLoop_NoTimer(c, att, text) ==
  /\ attempt' = [attempt EXCEPT ![c] = att]
  /\ IF att < MaxAttempts(retryConfig)
     THEN /\ pc' = [pc EXCEPT ![c] = "fetching"]
          /\ requests' = [requests EXCEPT ![c] = @ + 1]
          /\ request' = [request EXCEPT ![c] =
                [url |-> webhookUrl, method |-> "POST",
                 contentType |-> "application/json", body |-> JsonStringify(text)]]
          /\ timerArmed' = [timerArmed EXCEPT ![c] = FALSE]
          /\ aborted' = [aborted EXCEPT ![c] = FALSE]
          /\ thrown' = thrown
     ELSE /\ pc' = [pc EXCEPT ![c] = "failed"]
          /\ thrown' = [thrown EXCEPT ![c] =
                MkError("Error", <<"Unexpected: retry loop completed without result">>)]
          /\ UNCHANGED <<request, requests, timerArmed, aborted>>

\* mutant: the body of a retry carries a marker after the text
EnterLoop_RetryTagged(c, att, text) ==
  /\ attempt' = [attempt EXCEPT ![c] = att]
  /\ IF att < MaxAttempts(retryConfig)
     THEN /\ pc' = [pc EXCEPT ![c] = "fetching"]
          /\ requests' = [requests EXCEPT ![c] = @ + 1]
          /\ request' = [request EXCEPT ![c] =
                [url |-> webhookUrl, method |-> "POST",
                 contentType |-> "application/json",
                 body |-> JsonStringify(IF att = 0 THEN text
                                        ELSE StringValue(text.length + 8))]]
          /\ timerArmed' = [timerArmed EXCEPT ![c] = TRUE]
          /\ aborted' = [aborted EXCEPT ![c] = FALSE]
          /\ thrown' = thrown
     ELSE /\ pc' = [pc EXCEPT ![c] = "failed"]
          /\ thrown' = [thrown EXCEPT ![c] =
                MkError("Error", <<"Unexpected: retry loop completed without result">>)]
          /\ UNCHANGED <<request, requests, timerArmed, aborted>>

\* One iteration of the for loop of sendMessage(text) is entered with index att:
\* doSendMessage arms the timer and calls fetch; a false loop condition falls
\* through to the throw after the loop.
EnterLoop(c, att, text) ==
  /\ attempt' = [attempt EXCEPT ![c] = att]
  /\ IF att < MaxAttempts(retryConfig)
     THEN /\ pc' = [pc EXCEPT ![c] = "fetching"]
          /\ requests' = [requests EXCEPT ![c] = @ + 1]
          /\ request' = [request EXCEPT ![c] =
                [url |-> webhookUrl, method |-> "POST",
                 contentType |-> "application/json", body |-> JsonStringify(text)]]
          /\ timerArmed' = [timerArmed EXCEPT ![c] = TRUE]
          /\ aborted' = [aborted EXCEPT ![c] = FALSE]
          /\ thrown' = thrown
     ELSE /\ pc' = [pc EXCEPT ![c] = "failed"]
          /\ thrown' = [thrown EXCEPT ![c] =
                MkError("Error", <<"Unexpected: retry loop completed without result">>)]
          /\ UNCHANGED <<request, requests, timerArmed, aborted>>

\* sendMessage rejects with error
Reject(c, error) ==
  /\ pc' = [pc EXCEPT ![c] = "failed"]
  /\ thrown' = [thrown EXCEPT ![c] = error]

\* sendMessage(text) runs up to its first await: validation, the first log
\* entry, then the first attempt is issued
SendMessageCall(c, text) ==
  /\ pc[c] = "idle"
  /\ message' = [message EXCEPT ![c] = text]
  /\ IF InvalidMessage(text)
     THEN /\ Reject(c, MkError("Error", <<"Message must be a non-empty string">>))
          /\ UNCHANGED <<attempt, request, requests, timerArmed, aborted>>
     ELSE \E raised \in LogRaises("info") :
            IF raised
            THEN /\ Reject(c, ConsoleError)
                 /\ UNCHANGED <<attempt, request, requests, timerArmed, aborted>>
            ELSE EnterLoop(c, 0, text)
  /\ UNCHANGED <<clientVars, delay, returned, sleeps, fails, lastOutcome>>

\* mutant: the client serves one invocation at a time
SendMessage_Serialized(c) ==
  /\ \A d \in Calls : pc[d] \notin {"fetching", "sleeping"}
  /\ \E text \in env.texts : SendMessageCall(c, text)
  /\ UNCHANGED <<fnVars, toolVars, serverVars>>

\* sendMessage(text) is called by a caller of the client
SendMessage(c) ==
  /\ \E text \in env.texts : SendMessageCall(c, text)
  /\ UNCHANGED <<fnVars, toolVars, serverVars>>

\* the catch block of sendMessage runs with the caught error
CatchBlock(c, error) ==
  /\ fails' = [fails EXCEPT ![c] = @ + 1]
  /\ returned' = returned
  /\ IF Propagates(retryConfig, error)
        \/ LastAttempt(attempt[c], MaxAttempts(retryConfig))
     THEN /\ \E raised \in LogRaises("error") :
               Reject(c, IF raised THEN ConsoleError ELSE WrappedError(error))
          /\ UNCHANGED <<sleeps, delay>>
     ELSE \E raised \in LogRaises("warn") :
            IF raised
            THEN /\ Reject(c, ConsoleError)
                 /\ UNCHANGED <<sleeps, delay>>
            ELSE /\ \E k \in 0..(JitterSteps - 1) :
                      delay' = [delay EXCEPT ![c] =
                                  calculateBackoffDelay(attempt[c], retryConfig, k)]
                 /\ sleeps' = [sleeps EXCEPT ![c] = @ + 1]
                 /\ pc' = [pc EXCEPT ![c] = "sleeping"]
                 /\ thrown' = thrown

\* mutant: doSendMessage has no finally block, the timer stays pending
Settle_KeepsTimer(c, outcome) ==
  LET error == doSendMessage(outcome, timeoutMs) IN
  /\ lastOutcome' = [lastOutcome EXCEPT ![c] = outcome]
  /\ timerArmed' = timerArmed
  /\ IF error = NoValue
     THEN \E raised \in LogRaises("info") :
            IF raised
            THEN CatchBlock(c, ConsoleError)
            ELSE /\ pc' = [pc EXCEPT ![c] = "success"]
                 /\ returned' = [returned EXCEPT ![c] = SendMessageResult(message[c])]
                 /\ UNCHANGED <<thrown, fails, sleeps, delay>>
     ELSE CatchBlock(c, error)
  /\ UNCHANGED <<clientVars, fnVars, toolVars, serverVars, message, attempt, aborted, request, requests>>

\* the continuation of doSendMessage and sendMessage once fetch has settled
Settle(c, outcome) ==
  LET error == doSendMessage(outcome, timeoutMs) IN
  /\ lastOutcome' = [lastOutcome EXCEPT ![c] = outcome]
  /\ timerArmed' = [timerArmed EXCEPT ![c] = FALSE]
  /\ IF error = NoValue
     THEN \E raised \in LogRaises("info") :
            IF raised
            THEN CatchBlock(c, ConsoleError)
            ELSE /\ pc' = [pc EXCEPT ![c] = "success"]
                 /\ returned' = [returned EXCEPT ![c] = SendMessageResult(message[c])]
                 /\ UNCHANGED <<thrown, fails, sleeps, delay>>
     ELSE CatchBlock(c, error)
  /\ UNCHANGED <<clientVars, fnVars, toolVars, serverVars, message, attempt, aborted, request, requests>>

\* fetch resolves with a response
FetchResolves(c) ==
  /\ pc[c] = "fetching"
  /\ ~aborted[c]
  /\ \E status \in env.statuses : Settle(c, Response(status))

\* fetch rejects on its own
FetchRejects(c) ==
  /\ pc[c] = "fetching"
  /\ ~aborted[c]
  /\ \E v \in env.thrown : Settle(c, Rejection(v))

\* mutant: the timeout callback does not abort but issues the next attempt
TimeoutFires_Hedges(c) ==
  /\ pc[c] = "fetching"
  /\ timerArmed[c]
  /\ ~aborted[c]
  /\ attempt[c] + 1 < MaxAttempts(retryConfig)
  /\ attempt' = [attempt EXCEPT ![c] = @ + 1]
  /\ requests' = [requests EXCEPT ![c] = @ + 1]
  /\ UNCHANGED <<clientVars, fnVars, toolVars, serverVars, pc, message, delay, returned, thrown,
                 request, sleeps, fails, lastOutcome, aborted, timerArmed>>

\* the timeout callback of doSendMessage runs: controller.abort()
TimeoutFires(c) ==
  /\ pc[c] = "fetching"
  /\ timerArmed[c]
  /\ ~aborted[c]
  /\ aborted' = [aborted EXCEPT ![c] = TRUE]
  /\ timerArmed' = [timerArmed EXCEPT ![c] = FALSE]
  /\ UNCHANGED <<clientVars, fnVars, toolVars, serverVars, pc, message, attempt, delay, returned, thrown,
                 request, requests, sleeps, fails, lastOutcome>>

\* fetch rejects because its signal was aborted
FetchAborted(c) ==
  /\ pc[c] = "fetching"
  /\ aborted[c]
  /\ Settle(c, Rejection(AbortError))

\* mutant: the backoff is accumulated in the configuration of the client
SleepElapses_StoresBackoff(c) ==
  /\ pc[c] = "sleeping"
  /\ EnterLoop(c, attempt[c] + 1, message[c])
  /\ retryConfig' = [retryConfig EXCEPT !.baseDelayMs = 2 * @ + 1]
  /\ UNCHANGED <<options, webhookUrl, configRef, timeoutMs, logger,
                 defaultRetryConfig, callerConfig, env, fnVars, toolVars,
                 serverVars, message, delay, returned, sleeps, fails, lastOutcome>>

\* mutant: the loop index advances with the time waited
SleepElapses_IndexFromDelay(c) ==
  /\ pc[c] = "sleeping"
  /\ EnterLoop(c, attempt[c] + 1 + (delay[c] % 2), message[c])
  /\ UNCHANGED <<clientVars, fnVars, toolVars, serverVars, message, delay, returned, sleeps, fails,
                 lastOutcome>>

\* the backoff sleep ends: attempt++ and the next iteration
SleepElapses(c) ==
  /\ pc[c] = "sleeping"
  /\ EnterLoop(c, attempt[c] + 1, message[c])
  /\ UNCHANGED <<clientVars, fnVars, toolVars, serverVars, message, delay, returned, sleeps, fails,
                 lastOutcome>>

Next ==
  \E c \in Calls :
    \/ SendMessage(c)
    \/ FetchResolves(c)
    \/ FetchRejects(c)
    \/ TimeoutFires(c)
    \/ FetchAborted(c)
    \/ SleepElapses(c)

Spec == Init /\ [][Next]_vars

\* ------------------------------------- the functions applied on their own
UrlSchemes == {"", "http", "https", "HTTP", "HTTPS", "ftp", "file"}
UrlHosts == {"", "localhost", "LOCALHOST", "127.0.0.1", "127.1", "127.0.0.2",
             "[::1]", "::1", "example.com", "hooks.slack.com",
             "localhost.evil.com"}
UrlRests == {"", ":3000/webhook"}

\* URL strings handed to validateWebhookUrl
UrlInputs == { Url(s, h, r) : s \in UrlSchemes, h \in UrlHosts, r \in UrlRests }

MessageLengths == {0, 1, 2, 3, 10, 11, DEFAULT_MAX_MESSAGE_LENGTH,
                   DEFAULT_MAX_MESSAGE_LENGTH + 1}
MaxLengthInputs == {0, 1, 2, 10, DEFAULT_MAX_MESSAGE_LENGTH}

\* texts handed to validateMessage
MessageInputs ==
  { StringValue(n) : n \in MessageLengths }
    \cup { NumberValue(123), NumberValue(0), UndefinedValue, ObjectValue }

\* configurations a client holds (calculateBackoffDelay is only called with
\* retries enabled)
NormalizedConfigs ==
  { normalizeRetryConfig(r) : r \in RetryOptions \ {RetryFalse} }

FnInputs ==
  { FnInput("validateWebhookUrl", u, UndefinedValue, 0, 0, DEFAULT_RETRY_CONFIG, 0) :
      u \in UrlInputs }
  \cup
  { FnInput("validateMessage", EmptyUrl, t, m, 0, DEFAULT_RETRY_CONFIG, 0) :
      t \in MessageInputs, m \in MaxLengthInputs }
  \cup
  { FnInput("calculateBackoffDelay", EmptyUrl, UndefinedValue, 0, a, cfg, k) :
      a \in 0..(MaxRetriesIn + 1), cfg \in NormalizedConfigs,
      k \in 0..(JitterSteps - 1) }

\* a default client that is not used, and the arguments of one application
InitFn ==
  /\ Constructor(SlackUrl, RetryUndefined, 0)
  /\ logger = Logger(FALSE, "info")
  /\ env = WideEnv
  /\ InitCalls({})
  /\ input \in FnInputs
  /\ output = NoOutput
  /\ InitTool({}) /\ InitServer("absent")

ApplyValidateWebhookUrl ==
  /\ input.fn = "validateWebhookUrl"
  /\ ~output.done
  /\ output' = FnOutput(TRUE, validateWebhookUrl(input.url), 0)
  /\ UNCHANGED <<clientVars, callVars, toolVars, serverVars, input>>

ApplyValidateMessage ==
  /\ input.fn = "validateMessage"
  /\ ~output.done
  /\ output' = FnOutput(TRUE, validateMessage(input.text, input.maxLength), 0)
  /\ UNCHANGED <<clientVars, callVars, toolVars, serverVars, input>>

ApplyCalculateBackoffDelay ==
  /\ input.fn = "calculateBackoffDelay"
  /\ ~output.done
  /\ output' = FnOutput(TRUE, NoValue,
                        calculateBackoffDelay(input.attempt, input.config, input.k))
  /\ UNCHANGED <<clientVars, callVars, toolVars, serverVars, input>>

NextFn ==
  \/ ApplyValidateWebhookUrl
  \/ ApplyValidateMessage
  \/ ApplyCalculateBackoffDelay

SpecFn == InitFn /\ [][NextFn]_vars

\* ------------------- configuration objects mutated after construction
\* surroundings with one valid and one empty text, one status of each class and
\* the network failure of fetch
NarrowEnv == Env({StringValue(2), StringValue(0)}, {200, 400, 500}, {NetworkError}, FALSE)

\* what a caller may assign to the fields of a configuration object
MutatedConfigs == {RetryConfig(0, 0, 0), RetryConfig(MaxRetriesIn + 2, 4, 4)}

\* a client constructed with the default or with a configuration object
InitMut ==
  /\ \E retryOpt \in {RetryUndefined, RetryConfig(1, 1, 2)} :
        Constructor(SlackUrl, retryOpt, 0)
  /\ logger = Logger(FALSE, "info")
  /\ env = NarrowEnv
  /\ InitCalls({1})
  /\ input = NoInput /\ output = NoOutput
  /\ InitTool({}) /\ InitServer("absent")

\* DEFAULT_RETRY_CONFIG.maxRetries = ... (and the other fields)
MutateDefault ==
  \E v \in MutatedConfigs :
    /\ defaultRetryConfig # v
    /\ defaultRetryConfig' = v
    /\ retryConfig' = IF configRef = "default" THEN v ELSE retryConfig
    /\ UNCHANGED <<options, webhookUrl, configRef, timeoutMs, logger, callerConfig,
                   env, callVars, fnVars, toolVars, serverVars>>

\* the caller assigns to the fields of the object it passed as options.retry
MutateCaller ==
  \E v \in MutatedConfigs :
    /\ options.retry.kind = "config"
    /\ callerConfig # v
    /\ callerConfig' = v
    /\ retryConfig' = IF configRef = "caller" THEN v ELSE retryConfig
    /\ UNCHANGED <<options, webhookUrl, configRef, timeoutMs, logger,
                   defaultRetryConfig, env, callVars, fnVars, toolVars, serverVars>>

NextMut ==
  \/ Next
  \/ MutateDefault
  \/ MutateCaller

SpecMut == InitMut /\ [][NextMut]_vars

\* --------------------------------- concurrent invocations on one client
\* a client with retries disabled or with one retry, and every invocation to come
InitConc ==
  /\ \E retryOpt \in {RetryFalse, RetryConfig(1, 1, 2), RetryConfig(2, 1, 8)} :
        Constructor(SlackUrl, retryOpt, 10)
  /\ logger = Logger(FALSE, "info")
  /\ env = NarrowEnv
  /\ InitCalls(Calls)
  /\ input = NoInput /\ output = NoOutput
  /\ InitTool({}) /\ InitServer("absent")

SpecConc == InitConc /\ [][Next]_vars

\* ------------------------------------------- a console that may throw
LogLevels == {"debug", "info", "warn", "error"}

\* new Logger() under the settings of DEBUG and LOG_LEVEL: neither set,
\* DEBUG=true alone, LOG_LEVEL set to a valid level
LoggerInputs == {Logger(FALSE, "info")} \cup { Logger(TRUE, l) : l \in LogLevels }

\* as NarrowEnv, with a console.error that may throw
FailingConsoleEnv ==
  Env({StringValue(2), StringValue(0)}, {200, 400, 500}, {NetworkError}, TRUE)

InitLog ==
  /\ \E retryOpt \in {RetryFalse, RetryConfig(1, 1, 2)} :
        Constructor(SlackUrl, retryOpt, 10)
  /\ logger \in LoggerInputs
  /\ env = FailingConsoleEnv
  /\ InitCalls({1})
  /\ input = NoInput /\ output = NoOutput
  /\ InitTool({}) /\ InitServer("absent")

SpecLog == InitLog /\ [][Next]_vars

\* ------------------------------------------- send-to-slack.ts
\* mutant: a rejection with a value that is not an Error leaves the handler
HandlerResult_RethrowsNonError(resolved, result, error) ==
  IF resolved
  THEN ToolResult(FALSE, FALSE, "Successfully posted to Slack: ", result.message, <<>>)
  ELSE IF IsError(error)
  THEN ToolResult(FALSE, TRUE, "Error sending to Slack: ", UndefinedValue, error.message)
  ELSE ToolResult(TRUE, FALSE, "", UndefinedValue, <<>>)

\* what the handler returns once the promise of sendMessage has settled:
\* resolved with result, or rejected with error
HandlerResult(resolved, result, error) ==
  IF resolved
  THEN ToolResult(FALSE, FALSE, "Successfully posted to Slack: ", result.message, <<>>)
  ELSE ToolResult(FALSE, TRUE, "Error sending to Slack: ", UndefinedValue,
                  IF IsError(error) THEN error.message ELSE <<"Unknown error">>)

\* what the sendMessage of a test double rejects with
StubRejections ==
  {MkError("Error", <<"Network error">>), ThrownObject, ThrownString(<<"string error">>)}

\* the handler is invoked with args.message = text and calls
\* slackClient.sendMessage(text) of the client
ToolCalled(c) ==
  /\ tool[c] = "ready"
  /\ \E text \in env.texts : SendMessageCall(c, text)
  /\ tool' = [tool EXCEPT ![c] = "awaiting"]
  /\ sendCalls' = [sendCalls EXCEPT ![c] = @ + 1]
  /\ UNCHANGED <<toolResponse, fnVars, serverVars>>

\* the handler is invoked with a test double as slackClient
ToolCalledStub(c) ==
  /\ tool[c] = "ready"
  /\ pc[c] = "idle"
  /\ \E text \in env.texts : message' = [message EXCEPT ![c] = text]
  /\ pc' = [pc EXCEPT ![c] = "stubbed"]
  /\ tool' = [tool EXCEPT ![c] = "awaiting"]
  /\ sendCalls' = [sendCalls EXCEPT ![c] = @ + 1]
  /\ UNCHANGED <<clientVars, fnVars, serverVars, toolResponse, attempt, aborted,
                 timerArmed, delay, returned, thrown, request, requests, sleeps,
                 fails, lastOutcome>>

\* the promise the test double returned settles
StubSettles(c) ==
  /\ pc[c] = "stubbed"
  /\ \/ /\ pc' = [pc EXCEPT ![c] = "success"]
        /\ returned' = [returned EXCEPT ![c] = SendMessageResult(message[c])]
        /\ thrown' = thrown
     \/ \E v \in StubRejections :
          /\ pc' = [pc EXCEPT ![c] = "failed"]
          /\ thrown' = [thrown EXCEPT ![c] = v]
          /\ returned' = returned
  /\ UNCHANGED <<clientVars, fnVars, serverVars, toolVars, message, attempt, aborted,
                 timerArmed, delay, request, requests, sleeps, fails, lastOutcome>>

\* the handler resumes after await slackClient.sendMessage(message)
ToolResumes(c) ==
  /\ tool[c] = "awaiting"
  /\ pc[c] \in {"success", "failed"}
  /\ LET r == HandlerResult(pc[c] = "success", returned[c], thrown[c]) IN
       /\ toolResponse' = [toolResponse EXCEPT ![c] = r]
       /\ tool' = [tool EXCEPT ![c] = IF r.threw THEN "threw" ELSE "returned"]
  /\ UNCHANGED <<clientVars, callVars, fnVars, serverVars, sendCalls>>

\* a client, and tool invocations for the handler
InitToolSpec ==
  /\ \E retryOpt \in {RetryFalse, RetryConfig(1, 1, 2)} :
        Constructor(SlackUrl, retryOpt, 10)
  /\ logger = Logger(FALSE, "info")
  /\ env = NarrowEnv
  /\ InitCalls(Calls)
  /\ input = NoInput /\ output = NoOutput
  /\ InitTool(Calls) /\ InitServer("absent")

NextTool ==
  \E c \in Calls :
    \/ ToolCalled(c)
    \/ ToolCalledStub(c)
    \/ StubSettles(c)
    \/ ToolResumes(c)
    \/ FetchResolves(c)
    \/ FetchRejects(c)
    \/ TimeoutFires(c)
    \/ FetchAborted(c)
    \/ SleepElapses(c)

SpecTool == InitToolSpec /\ [][NextTool]_vars

\* ------------------------------------------- mcp-server.ts
Signals == {"SIGINT", "SIGTERM"}

\* what server.connect and server.close reject with
ConnectErrors == {MkError("Error", <<"Connection failed">>), ThrownString(<<"refused">>)}
CloseErrors == {MkError("Error", <<"Shutdown error">>)}

\* how a server.close() call settles: NoValue when it resolves
CloseOutcomes == {NoValue} \cup CloseErrors

\* mutant: the handlers are registered by every call
setupSignalHandlers_NoGuard(registered, count, callback, cb) ==
  [listeners |-> [sig \in Signals |-> count[sig] + 1],
   onShutdown |-> cb,
   log |-> <<"register">>]

\* setupSignalHandlers(server, onShutdown) finding the flag, the listener counts
\* and the callback kept so far: the listener counts and the callback after it,
\* and what it did
setupSignalHandlers(registered, count, callback, cb) ==
  IF registered
  THEN [listeners |-> count, onShutdown |-> callback, log |-> <<>>]
  ELSE [listeners |-> [sig \in Signals |-> count[sig] + 1],
        onShutdown |-> cb,
        log |-> <<"register">>]

\* mutant: a signal during shutdown is ignored
ForcesExit_Never(shuttingDown) == FALSE

\* handleSignal: if (isShuttingDown) process.exit(1)
ForcesExit(shuttingDown) == shuttingDown

\* mutant: the process exits with 0 whatever close did
ShutdownExitCode_AlwaysZero(closeError, callbackThrew) == 0

\* handleSignal after await shutdownServer(server): the code it exits with
ShutdownExitCode(closeError, callbackThrew) ==
  IF closeError = NoValue /\ ~callbackThrew THEN 0 ELSE 1

\* mutant: the error of the close replaces the connect error
StartServerRejection_CloseErrorWins(error, closeError) ==
  IF closeError = NoValue THEN error ELSE closeError

\* startServer after the close it attempted: what it rejects with
StartServerRejection(error, closeError) == error

Running == exitCode = -1

\* setupSignalHandlers is called directly (cb: an onShutdown callback is given)
SetupCalled ==
  /\ Running
  /\ setupCalls < MaxSetupCalls
  /\ \E cb \in BOOLEAN :
       LET r == setupSignalHandlers(signalHandlersRegistered, listeners, onShutdown, cb)
       IN /\ listeners' = r.listeners
          /\ onShutdown' = r.onShutdown
          /\ events' = events \o r.log
  /\ signalHandlersRegistered' = TRUE
  /\ setupCalls' = setupCalls + 1
  /\ UNCHANGED <<clientVars, callVars, fnVars, toolVars, isShuttingDown, startPc,
                 connectError, startError, sigPc, exitCode>>

\* startServer(server) runs up to await server.connect(transport)
StartServer ==
  /\ Running
  /\ startPc = "idle"
  /\ LET r == setupSignalHandlers(signalHandlersRegistered, listeners, onShutdown, FALSE)
     IN /\ listeners' = r.listeners
        /\ onShutdown' = r.onShutdown
        /\ events' = events \o r.log \o <<"connect">>
  /\ signalHandlersRegistered' = TRUE
  /\ startPc' = "connecting"
  /\ UNCHANGED <<clientVars, callVars, fnVars, toolVars, isShuttingDown, connectError,
                 startError, sigPc, exitCode, setupCalls>>

\* server.connect resolves: startServer resolves
ConnectResolves ==
  /\ Running
  /\ startPc = "connecting"
  /\ startPc' = "started"
  /\ UNCHANGED <<clientVars, callVars, fnVars, toolVars, signalHandlersRegistered,
                 listeners, onShutdown, isShuttingDown, connectError, startError,
                 sigPc, exitCode, setupCalls, events>>

\* server.connect rejects: the catch block of startServer calls shutdownServer,
\* which calls server.close()
ConnectRejects ==
  /\ Running
  /\ startPc = "connecting"
  /\ \E error \in ConnectErrors : connectError' = error
  /\ startPc' = "closing"
  /\ events' = events \o <<"close">>
  /\ UNCHANGED <<clientVars, callVars, fnVars, toolVars, signalHandlersRegistered,
                 listeners, onShutdown, isShuttingDown, startError, sigPc, exitCode,
                 setupCalls>>

\* the close startServer attempted settles: startServer rejects
StartCloseSettles ==
  /\ Running
  /\ startPc = "closing"
  /\ \E closeError \in CloseOutcomes :
       /\ startError' = StartServerRejection(connectError, closeError)
       /\ events' = events \o <<IF closeError = NoValue THEN "closed" ELSE "closeFailed">>
  /\ startPc' = "rejected"
  /\ UNCHANGED <<clientVars, callVars, fnVars, toolVars, signalHandlersRegistered,
                 listeners, onShutdown, isShuttingDown, connectError, sigPc, exitCode,
                 setupCalls>>

\* cli.ts: startServer(server).catch(...) exits with 1
CliCatch ==
  /\ Running
  /\ startPc = "rejected"
  /\ exitCode' = 1
  /\ events' = events \o <<"exit1">>
  /\ UNCHANGED <<clientVars, callVars, fnVars, toolVars, signalHandlersRegistered,
                 listeners, onShutdown, isShuttingDown, startPc, connectError,
                 startError, sigPc, setupCalls>>

\* a signal is delivered to the listener registered for it: handleSignal runs up
\* to process.exit(1) or to await server.close() inside shutdownServer
Signal(sig) ==
  /\ Running
  /\ listeners[sig] > 0
  /\ IF ForcesExit(isShuttingDown)
     THEN /\ exitCode' = 1
          /\ events' = events \o <<sig, "exit1">>
          /\ UNCHANGED <<isShuttingDown, sigPc>>
     ELSE /\ isShuttingDown' = TRUE
          /\ sigPc' = "closing"
          /\ events' = events \o <<sig, "close">>
          /\ exitCode' = exitCode
  /\ UNCHANGED <<clientVars, callVars, fnVars, toolVars, signalHandlersRegistered,
                 listeners, onShutdown, startPc, connectError, startError, setupCalls>>

\* the close of the graceful shutdown settles: handleSignal calls onShutdown (it
\* may throw) and exits
SignalCloseSettles ==
  /\ Running
  /\ sigPc = "closing"
  /\ \E closeError \in CloseOutcomes, callbackThrew \in BOOLEAN :
       /\ callbackThrew => closeError = NoValue /\ onShutdown
       /\ exitCode' = ShutdownExitCode(closeError, callbackThrew)
       /\ events' = events
            \o <<IF closeError = NoValue THEN "closed" ELSE "closeFailed">>
            \o (IF closeError = NoValue /\ onShutdown THEN <<"onShutdown">> ELSE <<>>)
            \o <<IF ShutdownExitCode(closeError, callbackThrew) = 0
                 THEN "exit0" ELSE "exit1">>
  /\ sigPc' = "done"
  /\ UNCHANGED <<clientVars, callVars, fnVars, toolVars, signalHandlersRegistered,
                 listeners, onShutdown, isShuttingDown, startPc, connectError,
                 startError, setupCalls>>

\* a default client that is not used, and the server module loaded
InitServerSpec ==
  /\ Constructor(SlackUrl, RetryUndefined, 0)
  /\ logger = Logger(FALSE, "info")
  /\ env = NarrowEnv
  /\ InitCalls({})
  /\ input = NoInput /\ output = NoOutput
  /\ InitTool({}) /\ InitServer("idle")

NextServer ==
  \/ SetupCalled
  \/ StartServer
  \/ ConnectResolves
  \/ ConnectRejects
  \/ StartCloseSettles
  \/ CliCatch
  \/ \E sig \in Signals : Signal(sig)
  \/ SignalCloseSettles

SpecServer == InitServerSpec /\ [][NextServer]_vars

\* ----------------------------------------- timers that fire
\* surroundings in which the destination answers, fails or stays silent
LiveEnv == Env({StringValue(2), StringValue(0)}, {200, 400, 500},
               {NetworkError, GenericError}, FALSE)

InitLive ==
  /\ \E retryOpt \in {RetryFalse, RetryUndefined}
                       \cup { RetryConfig(m, 1, 2) : m \in 0..MaxRetriesIn },
        timeoutOpt \in TimeoutInputs :
        Constructor(SlackUrl, retryOpt, timeoutOpt)
  /\ logger = Logger(FALSE, "info")
  /\ env = LiveEnv
  /\ InitCalls({1})
  /\ input = NoInput /\ output = NoOutput
  /\ InitTool({}) /\ InitServer("absent")

\* The timers of setTimeout fire (the timeout of an attempt, the backoff sleep)
\* and fetch rejects once its signal is aborted; nothing is assumed of the
\* destination.
TimersFire ==
  \A c \in Calls :
    /\ WF_vars(TimeoutFires(c))
    /\ WF_vars(FetchAborted(c))
    /\ WF_vars(SleepElapses(c))

SpecLive == InitLive /\ [][Next]_vars /\ TimersFire

\* =================================================================
\* Properties
\* =================================================================
RetriesEnabled == retryConfig.kind = "config"
Started(c) == pc[c] \notin {"absent", "idle"}
Done(c) == pc[c] \in {"success", "failed"}

\* a text that is empty or not a string
InvalidText(m) == m.type # "string" \/ m.length = 0

\* classification of a transport outcome, as the specification words it
Is2xx(o) == o.kind = "response" /\ o.status \in 200..299
Is4xx(o) == o.kind = "response" /\ o.status \in 400..499
Is5xx(o) == o.kind = "response" /\ o.status \in 500..599
IsTimeout(o) == o = Rejection(AbortError)
IsConnectionFailure(o) == o.kind = "rejection" /\ IsError(o.value) /\ ~IsTimeout(o)
IsNetworkTypeError(o) == o = Rejection(NetworkError)
IsUnrecognized(o) == o.kind = "rejection" /\ ~IsError(o.value)
IsTransient(o) == Is5xx(o) \/ IsTimeout(o) \/ IsNetworkTypeError(o)

\* the failure of an attempt as the caller sees it
StatusFailure(o) == MkError("Error", StatusMessage(o.status))
TimeoutFailure == MkError("Error", TimeoutMessage(timeoutMs))
FailureOf(o) ==
  CASE o.kind = "response" -> StatusFailure(o)
    [] IsTimeout(o) -> TimeoutFailure
    [] IsUnrecognized(o) -> MkError("Error", StringOf(o.value))
    [] OTHER -> o.value

\* C1: with retries enabled and normalized maxRetries = N, an invocation never
\* issues more than N+1 requests; when it fails on a transient failure (so every
\* attempt before it failed transiently too) it has issued exactly N+1 requests,
\* all of them failed, and it rejects with the failure of the last attempt.
C1_AttemptBudget ==
  \A c \in Calls :
    RetriesEnabled =>
      /\ requests[c] =< retryConfig.maxRetries + 1
      /\ (pc[c] = "failed" /\ IsTransient(lastOutcome[c]) =>
            /\ requests[c] = retryConfig.maxRetries + 1
            /\ fails[c] = retryConfig.maxRetries + 1
            /\ thrown[c] = FailureOf(lastOutcome[c]))

C1_Witness ==
  \E c \in Calls :
    /\ RetriesEnabled /\ retryConfig.maxRetries = 2
    /\ pc[c] = "failed" /\ lastOutcome[c] = Response(500)
    /\ requests[c] = 3 /\ thrown[c] = StatusFailure(Response(500))

\* C2: the step in which an attempt receives a 2xx response ends the invocation
\* with {success: true, message: text}; after that the invocation issues no
\* request, starts no sleep and keeps its result; a success on the first attempt
\* has made exactly one request.
C2_SuccessReturnsAtOnce ==
  [][\A c \in Calls :
       /\ (pc[c] = "fetching" /\ pc'[c] # "fetching" /\ Is2xx(lastOutcome'[c]) =>
             /\ pc'[c] = "success"
             /\ returned'[c] = [success |-> TRUE, message |-> message[c]]
             /\ thrown'[c] = NoValue
             /\ requests'[c] = requests[c] /\ sleeps'[c] = sleeps[c]
             /\ (attempt[c] = 0 => requests'[c] = 1))
       /\ (pc[c] = "success" =>
             /\ pc'[c] = "success" /\ returned'[c] = returned[c]
             /\ requests'[c] = requests[c] /\ sleeps'[c] = sleeps[c]
             /\ ~timerArmed'[c])]_vars

C2_Witness ==
  \E c \in Calls :
    /\ pc[c] = "success" /\ lastOutcome[c] = Response(204)
    /\ requests[c] = 1 /\ sleeps[c] = 0
    /\ message[c] = StringValue(2)
    /\ returned[c] = [success |-> TRUE, message |-> StringValue(2)]

\* C3: an invocation whose first k attempts failed and whose attempt k+1 was
\* accepted has made k+1 requests and k sleeps, k <= maxRetries; while it runs,
\* every request but the first follows exactly one sleep (requests and sleeps
\* alternate).
C3_RetryThenSuccess ==
  \A c \in Calls :
    /\ (pc[c] = "success" =>
          /\ requests[c] = fails[c] + 1
          /\ sleeps[c] = fails[c]
          /\ (RetriesEnabled => fails[c] =< retryConfig.maxRetries)
          /\ (~RetriesEnabled => fails[c] = 0))
    /\ (pc[c] = "fetching" => sleeps[c] = requests[c] - 1 /\ fails[c] = sleeps[c])
    /\ (pc[c] = "sleeping" =>
          /\ sleeps[c] = requests[c] /\ fails[c] = sleeps[c]
          /\ RetriesEnabled /\ sleeps[c] =< retryConfig.maxRetries
          /\ IsTransient(lastOutcome[c]))

C3_Witness ==
  \E c \in Calls :
    /\ RetriesEnabled /\ retryConfig.maxRetries = 2
    /\ pc[c] = "success" /\ fails[c] = 2
    /\ requests[c] = 3 /\ sleeps[c] = 2

\* C4: once an attempt has received a 4xx response the invocation is failed with
\* that status failure: no sleep and no request follows the attempt, whatever
\* budget is left; on the first attempt exactly one request was made.
C4_ClientErrorFailsAtOnce ==
  \A c \in Calls :
    Is4xx(lastOutcome[c]) =>
      /\ pc[c] = "failed"
      /\ thrown[c] = StatusFailure(lastOutcome[c])
      /\ requests[c] = attempt[c] + 1
      /\ sleeps[c] = attempt[c]
      /\ fails[c] = requests[c]
      /\ (attempt[c] = 0 => requests[c] = 1 /\ sleeps[c] = 0)

C4_Witness ==
  \E c \in Calls :
    /\ RetriesEnabled /\ retryConfig.maxRetries = 2
    /\ lastOutcome[c] = Response(400) /\ pc[c] = "failed"
    /\ attempt[c] = 0 /\ requests[c] = 1

\* C5: with retries disabled an invocation that passed validation makes exactly
\* one request and never sleeps; whatever failure the attempt ends with (server
\* error, timeout, connection failure, anything thrown) is propagated at once.
C5_RetryDisabledSingleAttempt ==
  \A c \in Calls :
    options.retry = RetryFalse /\ Started(c) /\ ~InvalidText(message[c]) =>
      /\ requests[c] = 1
      /\ sleeps[c] = 0
      /\ pc[c] # "sleeping"
      /\ (lastOutcome[c] # NoOutcome => Done(c))
      /\ (lastOutcome[c] # NoOutcome /\ ~Is2xx(lastOutcome[c]) =>
            pc[c] = "failed" /\ thrown[c] = FailureOf(lastOutcome[c]))

C5_Witness ==
  \E c \in Calls :
    /\ options.retry = RetryFalse
    /\ lastOutcome[c] = Response(500) /\ pc[c] = "failed"
    /\ requests[c] = 1 /\ sleeps[c] = 0

\* C6: when the timeout callback has aborted the attempt in flight, the step that
\* ends the attempt counts one failed attempt, classified as the "timed out"
\* failure; the invocation is not cancelled: with retries enabled and budget
\* left it starts a backoff sleep and the end of that sleep issues the next
\* attempt, otherwise it rejects with the "timed out" failure.  The callback
\* itself only aborts the request: the invocation stays in its attempt.
C6_TimeoutIsRetryable ==
  [][\A c \in Calls :
       /\ (~aborted[c] /\ aborted'[c] =>
             /\ pc[c] = "fetching" /\ pc'[c] = "fetching"
             /\ attempt'[c] = attempt[c] /\ requests'[c] = requests[c]
             /\ thrown'[c] = NoValue)
       /\ (pc[c] = "fetching" /\ aborted[c] /\ pc'[c] # "fetching" =>
             /\ IsTimeout(lastOutcome'[c])
             /\ fails'[c] = fails[c] + 1
             /\ requests'[c] = requests[c]
             /\ IF RetriesEnabled /\ attempt[c] < retryConfig.maxRetries
                THEN /\ pc'[c] = "sleeping"
                     /\ sleeps'[c] = sleeps[c] + 1
                     /\ thrown'[c] = NoValue
                ELSE /\ pc'[c] = "failed"
                     /\ thrown'[c] = TimeoutFailure
                     /\ Includes(thrown'[c].message, <<"timed out">>))
       /\ (pc[c] = "sleeping" /\ IsTimeout(lastOutcome[c]) /\ pc'[c] # "sleeping" =>
             /\ pc'[c] = "fetching"
             /\ attempt'[c] = attempt[c] + 1
             /\ requests'[c] = requests[c] + 1
             /\ ~aborted'[c])]_vars

C6_Witness ==
  \E c \in Calls :
    /\ RetriesEnabled /\ retryConfig.maxRetries = 1
    /\ IsTimeout(lastOutcome[c])
    /\ pc[c] = "fetching" /\ attempt[c] = 1
    /\ requests[c] = 2 /\ sleeps[c] = 1 /\ fails[c] = 1

C8_NonErrorNotRetried ==
  \A c \in Calls :
    IsUnrecognized(lastOutcome[c]) =>
      /\ pc[c] = "failed"
      /\ thrown[c] = MkError("Error", StringOf(lastOutcome[c].value))
      /\ requests[c] = attempt[c] + 1
      /\ sleeps[c] = attempt[c]
      /\ (attempt[c] = 0 => requests[c] = 1 /\ sleeps[c] = 0)

C8_Witness ==
  \E c \in Calls :
    /\ RetriesEnabled /\ retryConfig.maxRetries = 2
    /\ lastOutcome[c] = Rejection(ThrownString(<<"timed out">>))
    /\ pc[c] = "failed" /\ attempt[c] = 0 /\ requests[c] = 1
    /\ thrown[c] = MkError("Error", <<"timed out">>)

\* C9: an invocation with an empty or non-string text is failed without an
\* attempt: no request, no sleep, no failed attempt, the loop index untouched,
\* under every retry configuration.
C9_InvalidTextNoAttempt ==
  \A c \in Calls :
    Started(c) /\ InvalidText(message[c]) =>
      /\ pc[c] = "failed"
      /\ thrown[c] = MkError("Error", <<"Message must be a non-empty string">>)
      /\ requests[c] = 0 /\ sleeps[c] = 0 /\ fails[c] = 0
      /\ attempt[c] = 0 /\ ~timerArmed[c]
      /\ lastOutcome[c] = NoOutcome

C9_Witness ==
  \E c \in Calls :
    /\ RetriesEnabled /\ retryConfig.maxRetries = 2
    /\ message[c] = NumberValue(123)
    /\ pc[c] = "failed" /\ requests[c] = 0

\* C10: an invocation whose text is a string longer than the default maximum of
\* the Validator (4000 characters) is failed with a MessageValidationError
\* before any request is issued.
C10_OverLengthRejected ==
  \A c \in Calls :
    /\ Started(c)
    /\ message[c].type = "string"
    /\ message[c].length > DEFAULT_MAX_MESSAGE_LENGTH
    => /\ pc[c] = "failed"
       /\ requests[c] = 0
       /\ thrown[c] = validateMessage(message[c], DEFAULT_MAX_MESSAGE_LENGTH)

\* C11: every outbound request a client issues targets a destination that
\* satisfies the transport rule (https, or http on a loopback host), because the
\* destination is validated when the client is constructed.
\* The constructor and the command-line bootstrap only test that the URL is not
\* empty, so a client with an insecure non-loopback destination exists and sends.
C11_DestinationValidated ==
  \A c \in Calls :
    requests[c] > 0 => validateWebhookUrl(request[c].url) = NoValue

\* the hosts the transport rule treats as loopback
LoopbackHosts == {"localhost", "127.0.0.1", "::1", "[::1]"}

Applied(fn) == input.fn = fn /\ output.done

\* C12: validateWebhookUrl fails, with a ConfigError, exactly when the URL is
\* empty, does not parse, or its scheme is not https while it is not the case
\* that the scheme is http and the host is one of localhost, 127.0.0.1, ::1,
\* [::1]; every http URL on another host and every ftp or file URL is rejected,
\* every https URL that parses and every http loopback URL is accepted.
C12_TransportRule ==
  Applied("validateWebhookUrl") =>
    LET url == input.url
        parsed == ParseURL(url)
        isHttps == parsed.ok /\ parsed.protocol = <<"https", ":">>
        isHttp == parsed.ok /\ parsed.protocol = <<"http", ":">>
        loopback == parsed.ok /\ parsed.hostname \in LoopbackHosts
        rejected == output.error # NoValue
    IN /\ rejected <=> \/ ~UrlTruthy(url)
                       \/ ~parsed.ok
                       \/ ~isHttps /\ ~(isHttp /\ loopback)
       /\ rejected => output.error.name = "ConfigError"
       /\ isHttp /\ ~loopback => rejected
       /\ Lower(url.scheme) \in {"ftp", "file"} => rejected
       /\ isHttps => ~rejected
       /\ isHttp /\ loopback => ~rejected

C12_Witness ==
  /\ Applied("validateWebhookUrl")
  /\ input.url = Url("http", "127.0.0.2", ":3000/webhook")
  /\ output.error.name = "ConfigError"
  /\ Includes(output.error.message, <<"Webhook URL must use HTTPS">>)

\* C13: validateMessage(text, maxLength) fails, with a MessageValidationError,
\* exactly when text is empty, not a string or longer than maxLength; a
\* (non-empty) text of exactly maxLength characters is accepted, one of
\* maxLength + 1 characters is rejected, and the over-length failure reports both
\* the limit and the observed length.
C13_LengthBoundary ==
  Applied("validateMessage") =>
    LET text == input.text
        maxLength == input.maxLength
        isString == text.type = "string"
        rejected == output.error # NoValue
    IN /\ rejected <=> \/ ~isString
                       \/ text.length = 0
                       \/ text.length > maxLength
       /\ rejected => output.error.name = "MessageValidationError"
       /\ isString /\ text.length > 0 /\ text.length = maxLength => ~rejected
       /\ isString /\ text.length = maxLength + 1 => rejected
       /\ isString /\ text.length > maxLength /\ text.length > 0 =>
            /\ Includes(output.error.message, ToDigits(maxLength))
            /\ Includes(output.error.message, ToDigits(text.length))

C13_Witness ==
  /\ Applied("validateMessage")
  /\ input.text = StringValue(DEFAULT_MAX_MESSAGE_LENGTH)
  /\ input.maxLength = DEFAULT_MAX_MESSAGE_LENGTH
  /\ output.error = NoValue

\* C14: for every normalized configuration, attempt index and jitter draw, the
\* backoff delay lies in [0.5 * capped, capped] where
\* capped = min(baseDelayMs * 2^attempt, maxDelayMs).
\* Math.floor takes the delay below half of an odd capped delay.
C14_JitterInterval ==
  Applied("calculateBackoffDelay") =>
    LET capped == Min(input.config.baseDelayMs * Pow2(input.attempt),
                      input.config.maxDelayMs)
    IN /\ 2 * output.value >= capped
       /\ output.value <= capped

\* C15: for every retry configuration a caller supplies (integers, negative or
\* excessive ones included) the configuration the client holds satisfies
\* 0 <= maxRetries <= 10 and 0 <= baseDelayMs <= maxDelayMs: maxRetries is
\* clamped into [0, 10], a negative baseDelayMs becomes 0, a maxDelayMs below
\* baseDelayMs is raised to it, and values in range are kept.
C15_NormalizedConfig ==
  options.retry.kind = "config" =>
    LET given == options.retry
        held == retryConfig
    IN /\ held.kind = "config"
       /\ 0 =< held.maxRetries /\ held.maxRetries =< MAX_RETRIES_LIMIT
       /\ 0 =< held.baseDelayMs /\ held.baseDelayMs =< held.maxDelayMs
       /\ held.maxRetries = (IF given.maxRetries < 0 THEN 0
                             ELSE IF given.maxRetries > MAX_RETRIES_LIMIT THEN MAX_RETRIES_LIMIT
                             ELSE given.maxRetries)
       /\ held.baseDelayMs = (IF given.baseDelayMs < 0 THEN 0 ELSE given.baseDelayMs)
       /\ held.maxDelayMs = (IF given.maxDelayMs < held.baseDelayMs
                             THEN held.baseDelayMs ELSE given.maxDelayMs)
       /\ (/\ given.maxRetries \in 0..MAX_RETRIES_LIMIT
           /\ 0 =< given.baseDelayMs
           /\ given.baseDelayMs =< given.maxDelayMs
           => held = given)
       /\ \A c \in Calls : requests[c] =< MAX_RETRIES_LIMIT + 1

C15_Witness ==
  /\ options.retry = RetryConfig(MAX_RETRIES_LIMIT + 1, 3, 2)
  /\ retryConfig = RetryConfig(MAX_RETRIES_LIMIT, 3, 3)
  /\ \E c \in Calls : requests[c] = MAX_RETRIES_LIMIT + 1 /\ pc[c] = "failed"

\* C17: the response status decides the outcome of an attempt: 2xx is success,
\* 5xx is a retryable failure (a sleep follows while budget is left), 4xx is a
\* failure that is not retried, and no status outside 2xx is ever reported to
\* the caller as success.
C17_StatusDecidesOutcome ==
  [][\A c \in Calls :
       /\ (pc[c] = "success" => Is2xx(lastOutcome[c]))
       /\ (pc[c] = "fetching" /\ pc'[c] # "fetching"
             /\ lastOutcome'[c].kind = "response" =>
             LET o == lastOutcome'[c] IN
             /\ Is2xx(o) =>
                  pc'[c] = "success" /\ returned'[c].success /\ fails'[c] = fails[c]
             /\ ~Is2xx(o) =>
                  /\ pc'[c] # "success" /\ returned'[c] = NoResult
                  /\ fails'[c] = fails[c] + 1
             /\ Is5xx(o) =>
                  IF RetriesEnabled /\ attempt[c] < retryConfig.maxRetries
                  THEN pc'[c] = "sleeping" /\ thrown'[c] = NoValue
                  ELSE pc'[c] = "failed" /\ thrown'[c] = StatusFailure(o)
             /\ Is4xx(o) =>
                  /\ pc'[c] = "failed" /\ thrown'[c] = StatusFailure(o)
                  /\ sleeps'[c] = sleeps[c])]_vars

C17_Witness ==
  \E c \in Calls :
    /\ RetriesEnabled /\ retryConfig.maxRetries = 2
    /\ lastOutcome[c] = Response(304) /\ pc[c] = "failed"
    /\ requests[c] = 2 /\ sleeps[c] = 1
    /\ returned[c] = NoResult
    /\ thrown[c] = StatusFailure(Response(304))

\* C18: no failure is swallowed: a finished invocation has either returned the
\* success result or rejected with an Error, never both and never neither; an
\* unfinished one has done neither; it returned success only if its own last
\* attempt received a 2xx response, and an invocation whose last attempt failed
\* rejects with that failure.
C18_NoFailureSwallowed ==
  \A c \in Calls :
    /\ (pc[c] = "success" <=> returned[c] # NoResult)
    /\ (pc[c] = "failed" <=> thrown[c] # NoValue)
    /\ ~(returned[c] # NoResult /\ thrown[c] # NoValue)
    /\ (thrown[c] # NoValue => IsError(thrown[c]))
    /\ (pc[c] = "success" =>
          /\ requests[c] >= 1 /\ Is2xx(lastOutcome[c])
          /\ returned[c] = SendMessageResult(message[c]))
    /\ (pc[c] = "failed" /\ lastOutcome[c] # NoOutcome =>
          ~Is2xx(lastOutcome[c]) /\ thrown[c] = FailureOf(lastOutcome[c]))
    /\ (Started(c) /\ lastOutcome[c] # NoOutcome /\ ~Is2xx(lastOutcome[c]) =>
          pc[c] # "success")

C18_Witness ==
  \E c \in Calls :
    /\ pc[c] = "failed" /\ lastOutcome[c] = Rejection(ThrownObject)
    /\ requests[c] = 1
    /\ returned[c] = NoResult
    /\ thrown[c] = MkError("Error", StringOf(ThrownObject))

\* the configuration as it was when the client was constructed
ConstructionConfig == normalizeRetryConfig(options.retry)

\* C16: assigning to the shared default configuration, or to the configuration
\* object the caller passed, after the client was constructed leaves the
\* client's policy alone: the configuration it holds, the number of attempts
\* and the backoff delays of its invocations are those of the configuration at
\* construction.
C16_IndependentCopy ==
  /\ retryConfig = ConstructionConfig
  /\ \A c \in Calls :
       /\ requests[c] =< ConstructionConfig.maxRetries + 1
       /\ (pc[c] = "failed" /\ IsTransient(lastOutcome[c]) =>
             requests[c] = ConstructionConfig.maxRetries + 1)
       /\ (pc[c] = "sleeping" =>
             \E k \in 0..(JitterSteps - 1) :
               delay[c] = calculateBackoffDelay(attempt[c], ConstructionConfig, k))

C16_Witness ==
  \E c \in Calls :
    /\ options.retry = RetryUndefined
    /\ defaultRetryConfig = RetryConfig(0, 0, 0)
    /\ pc[c] = "failed" /\ lastOutcome[c] = Response(500)
    /\ requests[c] = DEFAULT_RETRY_CONFIG.maxRetries + 1

\* everything one invocation owns
CallState(c) ==
  <<pc[c], message[c], attempt[c], aborted[c], timerArmed[c], delay[c],
    returned[c], thrown[c], request[c], requests[c], sleeps[c], fails[c],
    lastOutcome[c]>>

\* C19: concurrent invocations on one client are independent under every
\* interleaving: a step of one invocation (its attempts, failures, retries,
\* timeouts) changes nothing another invocation owns and nothing of the client;
\* each invocation issues at most maxRetries + 1 requests of its own, counted by
\* its own attempt index, and its outcome is that of its own last attempt.
C19_CallsIndependent ==
  [][/\ \A c, d \in Calls :
          c # d /\ CallState(c)' # CallState(c) => CallState(d)' = CallState(d)
     /\ clientVars' = clientVars
     /\ \A c \in Calls :
          /\ requests'[c] =< MaxAttempts(retryConfig)
          /\ (RetriesEnabled => requests'[c] =< retryConfig.maxRetries + 1)
          /\ (pc'[c] \in {"fetching", "sleeping"} => requests'[c] = attempt'[c] + 1)
          /\ (pc'[c] = "success" => Is2xx(lastOutcome'[c]))
          /\ (pc'[c] = "failed" /\ lastOutcome'[c] # NoOutcome =>
                thrown'[c] = FailureOf(lastOutcome'[c]))
          /\ (pc'[c] = "failed" /\ IsTransient(lastOutcome'[c]) =>
                requests'[c] = MaxAttempts(retryConfig))]_vars

C19_Witness ==
  \E c, d \in Calls :
    /\ c # d
    /\ RetriesEnabled
    /\ pc[c] = "sleeping" /\ attempt[c] = 0 /\ requests[c] = 1
    /\ pc[d] = "fetching" /\ attempt[d] = 1 /\ requests[d] = 2
    /\ aborted[d] /\ ~timerArmed[d] /\ ~aborted[c]

\* C20: a log call that raises never changes the behaviour of sendMessage: the
\* outcome and the number of requests are those of a run in which logging
\* succeeds.  So a valid text is always sent, a delivery accepted with 2xx is
\* reported as success, a failed invocation rejects with the failure of its last
\* attempt, and a transient failure is retried while budget is left.
\* No log call of sendMessage is guarded: what console.error throws leaves
\* sendMessage, or is caught by its catch block as the failure of the attempt.
C20_LoggingUnobservable ==
  \A c \in Calls :
    /\ (Started(c) /\ ~InvalidText(message[c]) => requests[c] >= 1)
    /\ (Is2xx(lastOutcome[c]) =>
          pc[c] = "success" /\ returned[c] = SendMessageResult(message[c]))
    /\ (pc[c] = "failed" /\ lastOutcome[c] # NoOutcome =>
          thrown[c] = FailureOf(lastOutcome[c]))
    /\ (pc[c] = "failed" /\ IsTransient(lastOutcome[c]) =>
          requests[c] = MaxAttempts(retryConfig))

\* C21: the send_to_slack handler never throws: whatever sendMessage does, the
\* handler returns a response; without isError and echoing the text sent when
\* sendMessage resolved, with isError and a readable failure text when it
\* rejected, with an Error or with any other value; it calls sendMessage exactly
\* once per invocation.
C21_HandlerAlwaysResponds ==
  \A c \in Calls :
    /\ tool[c] # "threw" /\ ~toolResponse[c].threw
    /\ sendCalls[c] =< 1
    /\ (tool[c] \in {"awaiting", "returned"} => sendCalls[c] = 1)
    /\ (tool[c] = "returned" =>
          LET r == toolResponse[c] IN
          /\ pc[c] \in {"success", "failed"}
          /\ (pc[c] = "success" =>
                /\ ~r.isError
                /\ r.prefix = "Successfully posted to Slack: "
                /\ r.echo = message[c])
          /\ (pc[c] = "failed" =>
                /\ r.isError
                /\ r.prefix = "Error sending to Slack: "
                /\ r.reason # <<>>
                /\ (IsError(thrown[c]) => r.reason = thrown[c].message)
                /\ (~IsError(thrown[c]) => r.reason = <<"Unknown error">>)))

C21_Witness ==
  \E c \in Calls :
    /\ tool[c] = "returned" /\ sendCalls[c] = 1
    /\ pc[c] = "failed" /\ thrown[c] = ThrownObject
    /\ toolResponse[c].isError
    /\ toolResponse[c].reason = <<"Unknown error">>

\* what the step appended to the history of the server
Appended == SubSeq(events', Len(events) + 1, Len(events'))

\* the step delivers a signal to handleSignal
SignalStep == Len(Appended) = 2 /\ Appended[1] \in Signals

Last(n) == SubSeq(events, Len(events) - n + 1, Len(events))

\* C22: setupSignalHandlers is idempotent: after any number of calls, the one
\* startServer makes included, exactly one SIGINT listener and exactly one
\* SIGTERM listener are registered.
C22_HandlersRegisteredOnce ==
  /\ \A sig \in Signals : listeners[sig] =< 1
  /\ (setupCalls > 0 \/ startPc \notin {"absent", "idle"} =>
        /\ signalHandlersRegistered
        /\ \A sig \in Signals : listeners[sig] = 1)
  /\ (~signalHandlersRegistered => \A sig \in Signals : listeners[sig] = 0)

C22_Witness ==
  /\ setupCalls = MaxSetupCalls
  /\ startPc = "started"
  /\ listeners = [sig \in Signals |-> 1]

\* C23: the first SIGINT or SIGTERM invokes the close of the server; the process
\* exits with 0 only in the step in which that close has completed successfully
\* and, after it, onShutdown (when one was given) has been called; when the
\* close fails the process exits with 1 and onShutdown is not called.
C23_GracefulShutdown ==
  [][/\ (SignalStep /\ ~isShuttingDown =>
           /\ Appended[2] = "close"
           /\ sigPc' = "closing" /\ isShuttingDown'
           /\ exitCode' = -1)
     /\ (exitCode' = 0 /\ exitCode = -1 =>
           /\ sigPc = "closing"
           /\ Appended = IF onShutdown
                         THEN <<"closed", "onShutdown", "exit0">>
                         ELSE <<"closed", "exit0">>)
     /\ (sigPc = "closing" /\ sigPc' = "done" /\ Appended[1] = "closeFailed" =>
           /\ exitCode' = 1
           /\ Appended = <<"closeFailed", "exit1">>)
     /\ (exitCode' # 0 => ~(\E i \in 1..Len(events') : events'[i] = "exit0"))]_vars

C23_Witness ==
  /\ exitCode = 0 /\ onShutdown
  /\ Len(events) >= 5
  /\ Last(5) = <<"SIGTERM", "close", "closed", "onShutdown", "exit0">>

\* C24: a second signal, SIGINT or SIGTERM in any combination with the first,
\* that arrives while the graceful shutdown is in progress forces the process
\* to exit with 1 in that very step; the pending close is not awaited.
C24_SecondSignalForcesExit ==
  [][SignalStep /\ isShuttingDown /\ sigPc = "closing" =>
       /\ exitCode' = 1
       /\ Appended[2] = "exit1"
       /\ sigPc' = "closing"]_vars

C24_Witness ==
  /\ exitCode = 1 /\ sigPc = "closing"
  /\ Len(events) >= 4
  /\ Last(4) = <<"SIGINT", "close", "SIGTERM", "exit1">>

\* C25: startServer registers the signal handlers before it connects; when the
\* connect fails it attempts to close the server, and whatever that close does
\* it rejects with the connect error, never with the error of the close.
C25_StartupFailure ==
  [][/\ (startPc' \notin {"absent", "idle"} =>
           /\ signalHandlersRegistered' /\ \A sig \in Signals : listeners'[sig] = 1
           /\ \A i \in 1..Len(events') :
                events'[i] = "connect" =>
                  \E j \in 1..(i - 1) : events'[j] = "register")
     /\ (startPc = "connecting" /\ startPc' # "connecting" /\ connectError' # NoValue =>
           startPc' = "closing" /\ Appended = <<"close">>)
     /\ (startPc = "closing" /\ startPc' # "closing" =>
           /\ startPc' = "rejected"
           /\ Appended \in {<<"closed">>, <<"closeFailed">>}
           /\ startError' = connectError)
     /\ (startPc' = "rejected" =>
           startError' \in ConnectErrors /\ startError' \notin CloseErrors)]_vars

C25_Witness ==
  /\ startPc = "rejected" /\ sigPc = "none"
  /\ connectError = MkError("Error", <<"Connection failed">>)
  /\ startError = connectError
  /\ Len(events) >= 2
  /\ Last(2) = <<"close", "closeFailed">>

\* C26: every sendMessage call eventually ends in success or failed, also when
\* the destination never responds: the timeout ends each attempt, each backoff
\* sleep ends, and the attempts are bounded by the budget (timers fire).
C26_CallTerminates ==
  \A c \in Calls : (pc[c] \in {"fetching", "sleeping"}) ~> Done(c)

C26_Witness ==
  \E c \in Calls :
    /\ options.retry = RetryUndefined
    /\ pc[c] = "failed" /\ IsTimeout(lastOutcome[c])
    /\ requests[c] = DEFAULT_RETRY_CONFIG.maxRetries + 1
    /\ sleeps[c] = DEFAULT_RETRY_CONFIG.maxRetries
    /\ thrown[c] = TimeoutFailure

\* the error thrown after the attempt loop of sendMessage
LoopFallThrough ==
  MkError("Error", <<"Unexpected: retry loop completed without result">>)

\* C27: the throw after the attempt loop of sendMessage is unreachable: for
\* every normalized retry configuration and every sequence of attempt outcomes
\* the loop is entered, every iteration runs with an index below maxAttempts,
\* and the loop is left by returning the result or by throwing the failure of
\* an attempt.
C27_FallThroughUnreachable ==
  \A c \in Calls :
    /\ thrown[c] # LoopFallThrough
    /\ MaxAttempts(retryConfig) >= 1
    /\ (pc[c] \in {"fetching", "sleeping"} => attempt[c] < MaxAttempts(retryConfig))
    /\ (pc[c] = "sleeping" => attempt[c] + 1 < MaxAttempts(retryConfig))
    /\ (pc[c] = "failed" /\ ~InvalidText(message[c]) =>
          lastOutcome[c] # NoOutcome /\ thrown[c] = FailureOf(lastOutcome[c]))

C27_Witness ==
  \E c \in Calls :
    /\ options.retry.kind = "config" /\ options.retry.maxRetries = -1
    /\ retryConfig.maxRetries = 0
    /\ pc[c] = "failed" /\ requests[c] = 1
    /\ IsTimeout(lastOutcome[c]) /\ thrown[c] = TimeoutFailure

\* the transitions of the state machine of one call, with Idle = idle,
\* Attempting = fetching, Retrying = sleeping
MachineEdges ==
  {<<"idle", "fetching">>, <<"fetching", "success">>, <<"fetching", "sleeping">>,
   <<"fetching", "failed">>, <<"sleeping", "fetching">>}

\* one step of the call c stays within edges, leaves a terminal state alone and
\* enters Retrying only after a retryable failure on a non-final attempt with
\* retries enabled
FollowsMachine(c, edges) ==
  /\ (pc'[c] # pc[c] => <<pc[c], pc'[c]>> \in edges)
  /\ (pc[c] \in {"success", "failed"} =>
        /\ pc'[c] = pc[c]
        /\ requests'[c] = requests[c] /\ sleeps'[c] = sleeps[c]
        /\ returned'[c] = returned[c] /\ thrown'[c] = thrown[c])
  /\ (pc'[c] = "sleeping" /\ pc[c] # "sleeping" =>
        /\ pc[c] = "fetching"
        /\ RetriesEnabled
        /\ attempt[c] < retryConfig.maxRetries
        /\ IsTransient(lastOutcome'[c]))
  /\ (pc[c] = "fetching" /\ pc'[c] = "success" => Is2xx(lastOutcome'[c]))

\* C28 as stated: one sendMessage call follows the state machine
\* Idle -> Attempting -> {Success, Retrying -> Attempting, Failed}; no other
\* transition occurs.
C28_StateMachine ==
  [][\A c \in Calls : FollowsMachine(c, MachineEdges)]_vars

\* C28, amended: besides the transitions of the state machine a call goes from
\* Idle straight to Failed, and only then, when its text fails validation (no
\* attempt is made); Success and Failed are terminal and Retrying is entered
\* only from Attempting after a retryable failure on a non-final attempt with
\* retries enabled.
C28_StateMachineWithRejection ==
  [][\A c \in Calls :
       /\ FollowsMachine(c, MachineEdges \cup {<<"idle", "failed">>})
       /\ (pc[c] = "idle" /\ pc'[c] # "idle" =>
             IF InvalidText(message'[c])
             THEN pc'[c] = "failed" /\ requests'[c] = 0
             ELSE pc'[c] = "fetching" /\ requests'[c] = 1)]_vars

C28_Witness ==
  \E c \in Calls :
    /\ pc[c] = "failed" /\ requests[c] = 0 /\ attempt[c] = 0
    /\ message[c] = StringValue(0)
    /\ lastOutcome[c] = NoOutcome
    /\ thrown[c] = MkError("Error", <<"Message must be a non-empty string">>)

\* C29: intermediate retryable failures are not surfaced: while a call runs it
\* has thrown nothing; when it fails, what it throws is the failure of the
\* attempt that ended in that step, the last one issued; and a retryable failure
\* is thrown only when the budget is exhausted or retries are disabled,
\* otherwise the call goes on to sleep.
C29_OnlyFinalFailureSurfaced ==
  [][\A c \in Calls :
       /\ (pc'[c] \in {"fetching", "sleeping"} => thrown'[c] = NoValue)
       /\ (pc[c] = "fetching" /\ pc'[c] = "failed" =>
             /\ attempt[c] = requests[c] - 1
             /\ thrown'[c] = FailureOf(lastOutcome'[c])
             /\ (IsTransient(lastOutcome'[c]) =>
                   \/ ~RetriesEnabled
                   \/ requests[c] = retryConfig.maxRetries + 1))
       /\ (pc[c] = "fetching" /\ pc'[c] # "fetching" /\ IsTransient(lastOutcome'[c])
             /\ RetriesEnabled /\ requests[c] < retryConfig.maxRetries + 1 =>
             pc'[c] = "sleeping")]_vars

C29_Witness ==
  \E c \in Calls :
    /\ RetriesEnabled /\ retryConfig.maxRetries = 1
    /\ pc[c] = "failed" /\ lastOutcome[c] = Response(503)
    /\ requests[c] = 2 /\ fails[c] = 2
    /\ thrown[c] = StatusFailure(Response(503))

\* C30: the failure surfaced to the caller of sendMessage carries the reason of
\* the failure (the status code, the timeout or what the transport threw) and
\* the attempt count at which the call gave up.
\* The error thrown is the error of the attempt as doSendMessage made it; the
\* attempt count only goes to the log entry.
C30_FailureCarriesAttemptCount ==
  \A c \in Calls :
    pc[c] = "failed" /\ lastOutcome[c] # NoOutcome =>
      /\ thrown[c].message = FailureOf(lastOutcome[c]).message
      /\ Includes(thrown[c].message, ToDigits(requests[c]))

\* ------------------------- the handler composed with the client
\* surroundings whose transport rejects with values that are not Errors too
ComposedEnv == Env({StringValue(2), StringValue(0)}, {200, 400, 500},
                   TransportThrown, FALSE)

\* a client, and one tool invocation for the handler
InitComposed ==
  /\ \E retryOpt \in {RetryFalse, RetryUndefined, RetryConfig(1, 1, 2)} :
        Constructor(SlackUrl, retryOpt, 10)
  /\ logger = Logger(FALSE, "info")
  /\ env = ComposedEnv
  /\ InitCalls({1})
  /\ input = NoInput /\ output = NoOutput
  /\ InitTool({1}) /\ InitServer("absent")

SpecComposed == InitComposed /\ [][NextTool]_vars

\* C31: when the handler runs on the client itself and the transport rejects
\* the request with a value that is not an Error, the handler reports the
\* failure text 'Error sending to Slack: Unknown error'.
C31_NonErrorReportedAsUnknown ==
  \A c \in Calls :
    (/\ tool[c] = "returned"
     /\ requests[c] > 0
     /\ IsUnrecognized(lastOutcome[c]))
      => /\ toolResponse[c].isError
         /\ toolResponse[c].prefix = "Error sending to Slack: "
         /\ toolResponse[c].reason = <<"Unknown error">>

\* the wait calculateBackoffDelay computes before jitter shortens it: its value
\* at the jitter factor 1, the bound Math.random() stays below
PreJitterWait(i, config) == calculateBackoffDelay(i, config, JitterSteps)

\* C32: the wait after failed attempt i is computed from i and the configuration
\* alone: before jitter it is min(baseDelayMs * 2^i, maxDelayMs), the wait slept
\* is one of the jittered values of that number, the first wait is based on
\* baseDelayMs, the wait before jitter never decreases from one attempt to the
\* next, and no wait exceeds the normalized maxDelayMs.
C32_BackoffFromAttemptIndex ==
  \A c \in Calls :
    /\ delay[c] # -1 => delay[c] =< retryConfig.maxDelayMs
    /\ pc[c] = "sleeping" =>
         LET i == attempt[c]
             pre == PreJitterWait(i, retryConfig)
         IN /\ pre = Min(retryConfig.baseDelayMs * Pow2(i), retryConfig.maxDelayMs)
            /\ \E k \in 0..(JitterSteps - 1) :
                 delay[c] = (pre * (JitterSteps + k)) \div (2 * JitterSteps)
            /\ delay[c] =< pre
            /\ (i = 0 => pre = Min(retryConfig.baseDelayMs, retryConfig.maxDelayMs))
            /\ (i > 0 => PreJitterWait(i - 1, retryConfig) =< pre)

C32_Witness ==
  \E c \in Calls :
    /\ pc[c] = "sleeping" /\ attempt[c] >= 2 /\ sleeps[c] = attempt[c] + 1
    /\ retryConfig.baseDelayMs * Pow2(attempt[c]) > retryConfig.maxDelayMs
    /\ PreJitterWait(attempt[c], retryConfig) = retryConfig.maxDelayMs
    /\ delay[c] > 0 /\ delay[c] < retryConfig.maxDelayMs

\* C33: no step of a sendMessage invocation, alone or interleaved with the
\* steps of other invocations, succeeding or failing, assigns to the
\* destination, the per-attempt timeout or the retry configuration of the
\* client: they stay the values the constructor set.
C33_ConfigurationFixed ==
  [][/\ webhookUrl' = webhookUrl
     /\ timeoutMs' = timeoutMs
     /\ retryConfig' = retryConfig
     /\ configRef' = configRef
     /\ retryConfig' = normalizeRetryConfig(options.retry)]_vars

C33_Witness ==
  \E c, d \in Calls :
    /\ pc[c] = "failed" /\ sleeps[c] > 0
    /\ pc[d] = "success" /\ sleeps[d] > 0
    /\ webhookUrl = SlackUrl /\ timeoutMs = 10
    /\ retryConfig = normalizeRetryConfig(options.retry)

\* an invocation suspended at one of its two awaits
Suspended(c) == pc[c] \in {"fetching", "sleeping"}

\* C34: while one invocation is suspended, waiting for the response of its
\* request or sleeping in backoff, every step of another invocation on the same
\* client can be taken: it can start, its request can be answered, fail or time
\* out, and its own sleep can end.
C34_SuspensionsDoNotBlock ==
  \A c, d \in Calls :
    (c # d /\ Suspended(c)) =>
      /\ (pc[d] = "idle" => ENABLED SendMessage(d))
      /\ (pc[d] = "fetching" /\ ~aborted[d] =>
            ENABLED FetchResolves(d) /\ ENABLED FetchRejects(d))
      /\ (pc[d] = "fetching" /\ ~aborted[d] /\ timerArmed[d] =>
            ENABLED TimeoutFires(d))
      /\ (pc[d] = "fetching" /\ aborted[d] => ENABLED FetchAborted(d))
      /\ (pc[d] = "sleeping" => ENABLED SleepElapses(d))

C34_Witness ==
  \E c, d \in Calls :
    /\ c # d
    /\ pc[c] = "sleeping" /\ sleeps[c] = 1 /\ requests[c] = 1
    /\ pc[d] = "success" /\ requests[d] = 2 /\ sleeps[d] = 1

\* the request sendMessage(text) of this client sends
RequestOf(text) ==
  [url |-> webhookUrl, method |-> "POST", contentType |-> "application/json",
   body |-> [json |-> "object", member |-> "text", value |-> text]]

\* C35: every request of an invocation sendMessage(text) is a POST to the
\* destination of the client with Content-Type application/json and the body
\* {"text": text}; the request of a retry is the request of the attempt before.
C35_SameRequestEveryAttempt ==
  [][\A c \in Calls :
       requests'[c] > requests[c] =>
         /\ request'[c] = RequestOf(message'[c])
         /\ (requests[c] > 0 => request'[c] = request[c])]_vars

C35_Witness ==
  \E c \in Calls :
    /\ pc[c] = "fetching" /\ requests[c] = 3 /\ attempt[c] = 2
    /\ webhookUrl = InsecureUrl
    /\ request[c] = RequestOf(message[c])
    /\ message[c] = StringValue(2)

\* C36: the backoff sleeps of an invocation are the failed attempts that were
\* followed by another attempt: while a request is in flight and once the
\* invocation has ended after at least one request, sleeps = requests - 1;
\* during a sleep, sleeps = requests; so no sleep follows the final attempt or
\* a success, and between two requests there is exactly one sleep.
C36_SleepsBetweenAttempts ==
  \A c \in Calls :
    /\ (pc[c] = "fetching" => sleeps[c] = requests[c] - 1)
    /\ (pc[c] = "sleeping" => sleeps[c] = requests[c] /\ fails[c] = requests[c])
    /\ (Done(c) /\ requests[c] > 0 => sleeps[c] = requests[c] - 1)
    /\ (requests[c] = 0 => sleeps[c] = 0)
    /\ (pc[c] = "success" => fails[c] = sleeps[c])
    /\ (pc[c] = "failed" /\ requests[c] > 0 => fails[c] = sleeps[c] + 1)

C36_Witness ==
  \E c \in Calls :
    /\ pc[c] = "failed" /\ requests[c] = 3 /\ sleeps[c] = 2
    /\ lastOutcome[c] = Response(503)

\* requests of an invocation that were issued and have not resolved: every
\* resolved request either failed into the catch block or made the call succeed
InFlight(c) == requests[c] - fails[c] - (IF pc[c] = "success" THEN 1 ELSE 0)

\* C37: an invocation has at most one request in flight, and has one exactly
\* while it awaits fetch; a request is issued only when none is in flight, and
\* a request after the first only by the step that ends the backoff sleep that
\* followed the failure of the request before.
C37_OneRequestInFlight ==
  [][\A c \in Calls :
       /\ InFlight(c)' \in {0, 1}
       /\ (InFlight(c)' = 1 <=> pc'[c] = "fetching")
       /\ (requests'[c] > requests[c] =>
             /\ requests'[c] = requests[c] + 1
             /\ InFlight(c) = 0
             /\ (requests[c] > 0 =>
                   /\ pc[c] = "sleeping"
                   /\ lastOutcome[c] # NoOutcome
                   /\ fails[c] = requests[c]))]_vars

C37_Witness ==
  \E c \in Calls :
    /\ pc[c] = "fetching" /\ requests[c] = 2 /\ fails[c] = 1 /\ sleeps[c] = 1
    /\ lastOutcome[c] = Rejection(AbortError)
    /\ InFlight(c) = 1

\* C38: the timeout timer of an attempt is pending only while that attempt
\* awaits fetch: the step that resolves the attempt (response, failure or
\* timeout) leaves no timer pending, so none is pending during a backoff sleep,
\* after the invocation ended, or when the next attempt arms its own; and a
\* request is aborted only by the timer armed with it, in the same attempt.
C38_TimerClearedOnResolve ==
  [][\A c \in Calls :
       /\ (timerArmed'[c] => pc'[c] = "fetching")
       /\ (requests'[c] > requests[c] => ~timerArmed[c] /\ timerArmed'[c])
       /\ (aborted'[c] /\ ~aborted[c] =>
             /\ pc[c] = "fetching" /\ timerArmed[c]
             /\ requests'[c] = requests[c] /\ attempt'[c] = attempt[c])]_vars

C38_Witness ==
  \E c \in Calls :
    /\ pc[c] = "sleeping" /\ lastOutcome[c] = Response(500)
    /\ ~aborted[c] /\ ~timerArmed[c]

\* what a caller and the transport see of an ended invocation
Observation(c) ==
  [requests |-> requests[c], sleeps |-> sleeps[c], state |-> pc[c],
   returned |-> returned[c], thrown |-> thrown[c]]

\* what an invocation that makes a single attempt shows for a text and the
\* outcome of its request; the retry configuration is no argument
SingleAttemptObservation(text, o) ==
  IF InvalidText(text)
  THEN [requests |-> 0, sleeps |-> 0, state |-> "failed", returned |-> NoResult,
        thrown |-> MkError("Error", <<"Message must be a non-empty string">>)]
  ELSE IF Is2xx(o)
  THEN [requests |-> 1, sleeps |-> 0, state |-> "success",
        returned |-> SendMessageResult(text), thrown |-> NoValue]
  ELSE [requests |-> 1, sleeps |-> 0, state |-> "failed", returned |-> NoResult,
        thrown |-> FailureOf(o)]

\* C39: a client whose normalized maxRetries is 0 and a client with retries
\* disabled behave alike: either makes at most one request and never sleeps, and
\* what an ended invocation shows is the same function of the text and of the
\* outcome of that request for both.
C39_ZeroRetriesIsDisabled ==
  \A c \in Calls :
    (retryConfig.kind = "false" \/ retryConfig.maxRetries = 0) =>
      /\ requests[c] =< 1 /\ sleeps[c] = 0 /\ pc[c] # "sleeping"
      /\ (Done(c) => Observation(c) = SingleAttemptObservation(message[c], lastOutcome[c]))

C39_Witness ==
  \E c \in Calls :
    /\ options.retry.kind = "config" /\ options.retry.maxRetries < 0
    /\ retryConfig.maxRetries = 0
    /\ pc[c] = "failed" /\ lastOutcome[c] = Response(500)
    /\ requests[c] = 1 /\ sleeps[c] = 0
    /\ thrown[c] = MkError("Error", StatusMessage(500))

\* ------------------------- two runs with the same transport outcomes
\* requests of an invocation whose outcome the invocation has taken
Resolved(c) == fails[c] + (IF pc[c] = "success" THEN 1 ELSE 0)

\* the two runs that are compared
RunA == 1
RunB == 2

\* a client whose waits differ with the jitter drawn, and two invocations
InitJitter ==
  /\ \E retryOpt \in {RetryConfig(1, 4, 8), RetryConfig(2, 4, 8), RetryConfig(2, 4, 4)} :
        Constructor(SlackUrl, retryOpt, 10)
  /\ logger = Logger(FALSE, "info")
  /\ env = NarrowEnv
  /\ InitCalls({RunA, RunB})
  /\ input = NoInput /\ output = NoOutput
  /\ InitTool({}) /\ InitServer("absent")

\* the first run: the transport answers its request once the second run has
\* taken every outcome the first has taken
StepA ==
  \/ SendMessage(RunA)
  \/ /\ Resolved(RunA) = Resolved(RunB)
     /\ \/ FetchResolves(RunA)
        \/ FetchRejects(RunA)
        \/ FetchAborted(RunA)
  \/ TimeoutFires(RunA)
  \/ SleepElapses(RunA)

\* the second run: sendMessage is called with the text of the first run, the
\* transport gives its request the outcome it gave the same request of the
\* first run; the jitter of its waits is drawn on its own
StepB ==
  \/ /\ Started(RunA)
     /\ SendMessage(RunB)
     /\ message'[RunB] = message[RunA]
  \/ /\ Resolved(RunB) < Resolved(RunA)
     /\ \/ FetchResolves(RunB)
        \/ FetchRejects(RunB)
        \/ FetchAborted(RunB)
     /\ lastOutcome'[RunB] = lastOutcome[RunA]
  \/ /\ Resolved(RunB) < Resolved(RunA)
     /\ IsTimeout(lastOutcome[RunA])
     /\ TimeoutFires(RunB)
  \/ SleepElapses(RunB)

NextJitter == StepA \/ StepB

SpecJitter == InitJitter /\ [][NextJitter]_vars

\* C40: two runs of sendMessage on one configuration with the same text, whose
\* requests get the same outcomes one by one, differ at most in the durations
\* of their waits: whenever both have taken the same number of outcomes, both
\* have ended or both go on, they have slept the same number of times, and once
\* ended they have issued the same number of requests and resolved with the
\* same result or rejected with the same failure.
C40_JitterOnlyChangesWaits ==
  (Started(RunA) /\ Started(RunB) /\ Resolved(RunA) = Resolved(RunB)) =>
     /\ Done(RunA) <=> Done(RunB)
     /\ sleeps[RunA] = sleeps[RunB]
     /\ (Done(RunA) =>
           /\ pc[RunA] = pc[RunB]
           /\ requests[RunA] = requests[RunB]
           /\ returned[RunA] = returned[RunB]
           /\ thrown[RunA] = thrown[RunB])

C40_Witness ==
  /\ pc[RunA] = "failed" /\ pc[RunB] = "failed"
  /\ requests[RunA] = 3 /\ requests[RunB] = 3
  /\ delay[RunA] # delay[RunB] /\ delay[RunA] > 0 /\ delay[RunB] > 0
  /\ thrown[RunA] = thrown[RunB]
  /\ lastOutcome[RunA] = lastOutcome[RunB]

====
